---------------------------- MODULE Spec2Model ----------------------------
(***************************************************************************)
(* A model of stdl/color.py: the colour value types RGB, RGBA, HEX, HSV,  *)
(* HSL, CMYK, ASSA and webcolor, their constructors and validators, the    *)
(* conversions between them, the repr / dict codecs with the parse_*       *)
(* functions, and normalize_color.                                         *)
(*                                                                         *)
(* Representation.                                                         *)
(*   - A Python number is an exact rational <<n, d>> in lowest terms with  *)
(*     d > 0.  int(x) and round(x) yield rationals with d = 1.             *)
(*   - A Python str is a sequence of one-character strings.  The token     *)
(*     "U+FB00" stands for the single code point U+FB00 (LATIN SMALL       *)
(*     LIGATURE FF), whose upper() is the two characters "FF".             *)
(*   - An object is a function from attribute names to values, with the    *)
(*     extra entry "kind" for its class.                                   *)
(*   - A call returns an outcome [err, val]: err is "none" when the call   *)
(*     returns val, and the exception's class name when it raises.         *)
(***************************************************************************)
EXTENDS Integers, Sequences, FiniteSets, TLC

VARIABLES
    cur,    \* the object the program holds, NoObj when it holds none
    orig,   \* cur as its constructor returned it
    src,    \* the object cur was converted from, NoObj when cur was not
    res,    \* the outcome of the last call
    op,     \* the last call
    arg,    \* the argument of the last call
    depth,  \* the number of conversions that led to cur
    same,   \* whether the last call returned the very object it was called on
    held,   \* whether the last call returned an object that x itself holds
    shared, \* the instance that threads share, NoObj when no thread runs
    given,  \* shared as it was handed to the threads
    tpc,    \* each thread's position: "idle", "run" or "done"
    tcall,  \* the call each thread makes on shared
    tseen,  \* the attributes of shared each thread's call has read so far
    tret,   \* the outcome of each thread's call
    attempts, \* retry's attempts
    delay,    \* retry's delay
    attempt,  \* the wrapper's loop variable
    rpc,      \* the position of the program that uses retry
    log,      \* the calls of the wrapped function and of time.sleep so far
    outcome   \* what the decorator or the wrapper returned or raised

\* The program of one thread that makes, observes and converts an object.
color_vars == <<cur, orig, src, res, op, arg, depth, same, held>>

\* The threads that call a shared instance.
thread_vars == <<shared, given, tpc, tcall, tseen, tret>>

\* The program that calls a function wrapped with retry.
retry_vars == <<attempts, delay, attempt, rpc, log, outcome>>

vars == <<color_vars, thread_vars, retry_vars>>

\* Longest chain of conversions whose result is taken as the next object.
MaxChain == 1

\* Most fractional digits of a float whose repr is formatted and parsed.
MaxFrac == 5

NoObj == [kind |-> "None"]

Ok(v) == [err |-> "none", val |-> v]

Raise(e) == [err |-> e, val |-> NoObj]

---------------------------------------------------------------------------
\* Python numbers

RECURSIVE GCD(_, _)
GCD(a, b) == IF b = 0 THEN a ELSE GCD(b, a % b)

Abs(x) == IF x < 0 THEN -x ELSE x

\* The rational n/d in lowest terms.
Q(n, d) ==
    LET s == IF d < 0 THEN -1 ELSE 1
        g == GCD(Abs(n), Abs(d))
    IN  <<(s * n) \div g, (s * d) \div g>>

I(n) == <<n, 1>>

QAdd(a, b) ==
    LET g == GCD(a[2], b[2])
    IN  Q(a[1] * (b[2] \div g) + b[1] * (a[2] \div g), (a[2] \div g) * b[2])

QNeg(a) == <<-a[1], a[2]>>

QSub(a, b) == QAdd(a, QNeg(b))

QMul(a, b) ==
    LET g1 == GCD(Abs(a[1]), b[2])
        g2 == GCD(Abs(b[1]), a[2])
    IN  Q((a[1] \div g1) * (b[1] \div g2), (a[2] \div g2) * (b[2] \div g1))

QDiv(a, b) == QMul(a, Q(b[2], b[1]))

QLe(a, b) ==
    LET g == GCD(a[2], b[2])
    IN  a[1] * (b[2] \div g) <= b[1] * (a[2] \div g)

QLt(a, b) == ~QLe(b, a)

QAbs(a) == <<Abs(a[1]), a[2]>>

QFloor(a) == a[1] \div a[2]

\* x % m for floats, m > 0: the result has the sign of m.
QMod(a, m) == QSub(a, QMul(m, I(QFloor(QDiv(a, m)))))

QMax3(a, b, c) ==
    LET ab == IF QLe(a, b) THEN b ELSE a
    IN  IF QLe(ab, c) THEN c ELSE ab

QMin3(a, b, c) ==
    LET ab == IF QLe(a, b) THEN a ELSE b
    IN  IF QLe(ab, c) THEN ab ELSE c

\* int(x): truncation toward zero.
py_int(x) ==
    IF x[1] >= 0 THEN I(x[1] \div x[2]) ELSE I(-((-x[1]) \div x[2]))

\* float(x): the value is kept.
py_float(x) == x

\* round(x): nearest integer, ties to the even integer.
py_round(x) ==
    LET f == QFloor(x)
        twice == 2 * (x[1] - f * x[2])
    IN  IF twice < x[2] THEN I(f)
        ELSE IF twice > x[2] THEN I(f + 1)
        ELSE IF f % 2 = 0 THEN I(f) ELSE I(f + 1)

---------------------------------------------------------------------------
\* Python floats: IEEE-754 binary64 arithmetic, every operation rounded to
\* the nearest double, ties to the even mantissa.

Limb == 2 ^ 15

RECURSIVE Pow2(_)
Pow2(n) == IF n = 0 THEN 1 ELSE 2 * Pow2(n - 1)

\* The number of times 2 divides n.
RECURSIVE Twos(_)
Twos(n) == IF n = 0 \/ n % 2 = 1 THEN 0 ELSE 1 + Twos(n \div 2)

RECURSIVE Bits(_)
Bits(n) == IF n = 0 THEN 0 ELSE 1 + Bits(n \div 2)

\* A natural number of any size is the sequence of its limbs, the least
\* significant first, without a zero limb at the top.
RECURSIVE BigOf(_)
BigOf(n) == IF n = 0 THEN <<>> ELSE <<n % Limb>> \o BigOf(n \div Limb)

RECURSIVE BigInt(_)
BigInt(a) == IF a = <<>> THEN 0 ELSE a[1] + Limb * BigInt(Tail(a))

RECURSIVE BigTrim(_)
BigTrim(a) ==
    IF a # <<>> /\ a[Len(a)] = 0 THEN BigTrim(SubSeq(a, 1, Len(a) - 1)) ELSE a

BigLimb(a, i) == IF i <= Len(a) THEN a[i] ELSE 0

BigBits(a) == IF a = <<>> THEN 0 ELSE 15 * (Len(a) - 1) + Bits(a[Len(a)])

\* Bit k of a, bit 0 the least significant.
BigBit(a, k) == (BigLimb(a, k \div 15 + 1) \div Pow2(k % 15)) % 2

\* a % 2^n.
BigLow(a, n) ==
    BigTrim([i \in 1..Len(a) |->
                IF i <= n \div 15 THEN a[i]
                ELSE IF i = n \div 15 + 1 THEN a[i] % Pow2(n % 15)
                ELSE 0])

RECURSIVE BigAddFrom(_, _, _, _)
BigAddFrom(a, b, i, carry) ==
    IF i > Len(a) /\ i > Len(b) THEN BigOf(carry)
    ELSE <<(BigLimb(a, i) + BigLimb(b, i) + carry) % Limb>>
         \o BigAddFrom(a, b, i + 1, (BigLimb(a, i) + BigLimb(b, i) + carry) \div Limb)

BigAdd(a, b) == BigAddFrom(a, b, 1, 0)

RECURSIVE BigSubFrom(_, _, _, _)
BigSubFrom(a, b, i, borrow) ==
    IF i > Len(a) THEN <<>>
    ELSE <<(a[i] - BigLimb(b, i) - borrow) % Limb>>
         \o BigSubFrom(a, b, i + 1, IF a[i] - BigLimb(b, i) - borrow < 0 THEN 1 ELSE 0)

\* a - b for a >= b.
BigSub(a, b) == BigTrim(BigSubFrom(a, b, 1, 0))

RECURSIVE BigCmpFrom(_, _, _)
BigCmpFrom(a, b, i) ==
    IF i = 0 THEN 0
    ELSE IF a[i] < b[i] THEN -1
    ELSE IF a[i] > b[i] THEN 1
    ELSE BigCmpFrom(a, b, i - 1)

\* -1, 0 or 1 as a is below, equal to or above b.
BigCmp(a, b) ==
    IF Len(a) < Len(b) THEN -1
    ELSE IF Len(a) > Len(b) THEN 1
    ELSE BigCmpFrom(a, b, Len(a))

RECURSIVE BigScaleFrom(_, _, _, _)
BigScaleFrom(a, k, i, carry) ==
    IF i > Len(a) THEN BigOf(carry)
    ELSE <<(a[i] * k + carry) % Limb>>
         \o BigScaleFrom(a, k, i + 1, (a[i] * k + carry) \div Limb)

\* a * k for 0 <= k < 2^16.
BigScale(a, k) == IF k = 0 THEN <<>> ELSE BigScaleFrom(a, k, 1, 0)

\* a * 2^n.
BigShl(a, n) ==
    IF a = <<>> THEN <<>>
    ELSE [i \in 1..(n \div 15) |-> 0] \o BigScale(a, Pow2(n % 15))

RECURSIVE BigMul(_, _)
BigMul(a, b) ==
    IF a = <<>> \/ b = <<>> THEN <<>>
    ELSE BigAdd(BigScale(a, b[1]), BigShl(BigMul(a, Tail(b)), 15))

RECURSIVE BigDivFrom(_, _, _, _, _)
BigDivFrom(a, k, i, rem, quot) ==
    IF i = 0 THEN <<BigTrim(quot), rem>>
    ELSE BigDivFrom(a, k, i - 1, (rem * Limb + a[i]) % k,
                    <<(rem * Limb + a[i]) \div k>> \o quot)

\* <<a \div k, a % k>> for 0 < k < 2^16.
BigDiv(a, k) == BigDivFrom(a, k, Len(a), 0, <<>>)

\* a \div 2^n.
BigShr(a, n) ==
    IF n \div 15 >= Len(a) THEN <<>>
    ELSE BigDiv(SubSeq(a, n \div 15 + 1, Len(a)), Pow2(n % 15))[1]

\* a * 2^-n rounded to the nearest natural number, half way to the even
\* one; with rest, a stands for a little more than a.
BigRound(a, n, rest) ==
    IF n <= 0 THEN BigShl(a, -n)
    ELSE IF BigBit(a, n - 1) = 1
            /\ (rest \/ BigBit(a, n) = 1 \/ BigLow(a, n - 1) # <<>>)
    THEN BigAdd(BigShr(a, n), <<1>>)
    ELSE BigShr(a, n)

\* A double is <<neg, m, e>>, the number (-1)^neg * m * 2^e with m of at
\* most 53 bits. The double nearest to (-1)^neg * (m + rest) * 2^e with
\* 0 <= rest < 1, where inexact tells rest > 0 (m then has more than 54
\* bits): its mantissa is m cut to 53 bits.
Cut(m) == IF BigBits(m) > 53 THEN BigBits(m) - 53 ELSE 0

NearestDouble(neg, m, e, inexact) ==
    <<neg, BigRound(m, Cut(m), inexact), e + Cut(m)>>

\* The exact value <<neg, m, e, inexact>> of x + y for y of sign yneg, given
\* the mantissas a and b of x and y on the exponent e.
Aligned(xneg, yneg, a, b, e) ==
    IF xneg = yneg THEN <<xneg, BigAdd(a, b), e, FALSE>>
    ELSE IF BigCmp(a, b) >= 0 THEN <<xneg, BigSub(a, b), e, FALSE>>
    ELSE <<yneg, BigSub(b, a), e, FALSE>>

ExactSum(x, yneg, y, e) ==
    Aligned(x[1], yneg, BigShl(x[2], x[3] - e), BigShl(y[2], y[3] - e), e)

\* The quotient qr[1] of the mantissas and its remainder qr[2].
ExactQuotient(neg, qr, e) == <<neg, qr[1], e, qr[2] # 0>>

RECURSIVE DoubleOp(_, _, _)

\* Python's x % y for y a power of two: the n low bits of x's mantissa are
\* below y, and a negative remainder is raised by y.
ExactRemainder(x, y, n) ==
    IF n <= 0 \/ BigLow(x[2], n) = <<>> THEN <<FALSE, <<>>, 0, FALSE>>
    ELSE IF x[1] THEN DoubleOp("+", <<TRUE, BigLow(x[2], n), x[3]>>, y) \o <<FALSE>>
    ELSE <<FALSE, BigLow(x[2], n), x[3], FALSE>>

\* The exact value of x o y for doubles x and y; a divisor is an int whose
\* odd part is below 2^16, and the quotient is cut after 75 more bits.
ExactOp(o, x, y) ==
    CASE o \in {"+", "-"} ->
            ExactSum(x, y[1] # (o = "-"), y, IF x[3] < y[3] THEN x[3] ELSE y[3])
      [] o = "*" -> <<x[1] # y[1], BigMul(x[2], y[2]), x[3] + y[3], FALSE>>
      [] o = "/" -> ExactQuotient(x[1] # y[1],
                                  BigDiv(BigShl(x[2], 75), BigInt(y[2])),
                                  x[3] - 75 - y[3])
      [] o = "%" -> ExactRemainder(x, y, y[3] + BigBits(y[2]) - 1 - x[3])

IsDouble(x) == Len(x) = 3

\* The double of a float: an int is exact, its mantissa odd, and a fraction
\* n/d is the double of n / d.
AsDouble(x) ==
    IF IsDouble(x) THEN x
    ELSE IF x[2] = 1
    THEN <<x[1] < 0, BigOf(Abs(x[1]) \div Pow2(Twos(Abs(x[1])))), Twos(Abs(x[1]))>>
    ELSE DoubleOp("/", I(x[1]), I(x[2]))

RoundedOp(v) == NearestDouble(v[1], v[2], v[3], v[4])

\* a o b in double arithmetic: the double nearest to the exact value.
DoubleOp(o, a, b) == RoundedOp(ExactOp(o, AsDouble(a), AsDouble(b)))

\* round(x) of a double that rounds half way up.
DRound_half_up(x) ==
    (IF x[1] THEN -1 ELSE 1)
    * BigInt(IF x[3] < 0 /\ BigBit(x[2], -x[3] - 1) = 1
             THEN BigAdd(BigShr(x[2], -x[3]), <<1>>)
             ELSE BigRound(x[2], -x[3], FALSE))

\* round(x) of a double: the nearest int, half way to the even one.
DRound(x) == (IF x[1] THEN -1 ELSE 1) * BigInt(BigRound(x[2], -x[3], FALSE))

\* Float arithmetic: exact on exact values, double arithmetic on doubles.
FAdd(a, b) == IF IsDouble(a) \/ IsDouble(b) THEN DoubleOp("+", a, b) ELSE QAdd(a, b)

FSub(a, b) == IF IsDouble(a) \/ IsDouble(b) THEN DoubleOp("-", a, b) ELSE QSub(a, b)

FMul(a, b) == IF IsDouble(a) \/ IsDouble(b) THEN DoubleOp("*", a, b) ELSE QMul(a, b)

FDiv(a, b) == IF IsDouble(a) \/ IsDouble(b) THEN DoubleOp("/", a, b) ELSE QDiv(a, b)

FMod(a, b) == IF IsDouble(a) \/ IsDouble(b) THEN DoubleOp("%", a, b) ELSE QMod(a, b)

FAbs(a) == IF IsDouble(a) THEN <<FALSE, a[2], a[3]>> ELSE QAbs(a)

\* -1, 0 or 1 as a is below, equal to or above b: the sign of a - b.
DSign(x) == IF x[2] = <<>> THEN 0 ELSE IF x[1] THEN -1 ELSE 1

FCmp(a, b) ==
    IF IsDouble(a) \/ IsDouble(b) THEN DSign(DoubleOp("-", a, b))
    ELSE IF a = b THEN 0 ELSE IF QLt(a, b) THEN -1 ELSE 1

FLt(a, b) == FCmp(a, b) < 0

FLe(a, b) == FCmp(a, b) <= 0

FEq(a, b) == FCmp(a, b) = 0

\* The fields of an instance as doubles.
AsDoubles(fields) == [i \in DOMAIN fields |-> AsDouble(fields[i])]

\* round() of each float of computed, whose exact values are exact. A
\* double is within 2^-40 of the exact value, and an exact
\* value that is not half way between two ints is further than that from
\* half way, so the double rounds as the exact value does; only an exact
\* value half way between two ints needs the double.
py_round_floats(exact, computed) ==
    [i \in DOMAIN exact |->
        IF exact[i][2] = 2 THEN I(DRound(computed[i])) ELSE py_round(exact[i])]

---------------------------------------------------------------------------
\* Python strings

UpperLetters ==
    <<"A", "B", "C", "D", "E", "F", "G", "H", "I", "J", "K", "L", "M",
      "N", "O", "P", "Q", "R", "S", "T", "U", "V", "W", "X", "Y", "Z">>

LowerLetters ==
    <<"a", "b", "c", "d", "e", "f", "g", "h", "i", "j", "k", "l", "m",
      "n", "o", "p", "q", "r", "s", "t", "u", "v", "w", "x", "y", "z">>

Digits == <<"0", "1", "2", "3", "4", "5", "6", "7", "8", "9">>

HexLower == Digits \o <<"a", "b", "c", "d", "e", "f">>

HexUpper == Digits \o <<"A", "B", "C", "D", "E", "F">>

Range(s) == {s[i] : i \in DOMAIN s}

IndexOf(s, c) == CHOOSE i \in DOMAIN s : s[i] = c

RECURSIVE Flatten(_)
Flatten(ss) == IF ss = <<>> THEN <<>> ELSE Head(ss) \o Flatten(Tail(ss))

\* str.lower() of one character.
LowerChar(c) ==
    IF c \in Range(UpperLetters) THEN <<LowerLetters[IndexOf(UpperLetters, c)]>>
    ELSE <<c>>

\* str.upper() of one character; U+FB00 has the two-character upper "FF".
UpperChar(c) ==
    IF c \in Range(LowerLetters) THEN <<UpperLetters[IndexOf(LowerLetters, c)]>>
    ELSE IF c = "U+FB00" THEN <<"F", "F">>
    ELSE <<c>>

str_lower(s) == Flatten([i \in DOMAIN s |-> LowerChar(s[i])])

str_upper(s) == Flatten([i \in DOMAIN s |-> UpperChar(s[i])])

startswith(s, p) == Len(s) >= Len(p) /\ SubSeq(s, 1, Len(p)) = p

endswith(s, p) == Len(s) >= Len(p) /\ SubSeq(s, Len(s) - Len(p) + 1, Len(s)) = p

RECURSIVE lstrip(_, _)
lstrip(s, chars) ==
    IF s # <<>> /\ Head(s) \in chars THEN lstrip(Tail(s), chars) ELSE s

RECURSIVE rstrip(_, _)
rstrip(s, chars) ==
    IF s # <<>> /\ s[Len(s)] \in chars
    THEN rstrip(SubSeq(s, 1, Len(s) - 1), chars) ELSE s

\* "".join(c for c in s if c in chars)
KeepChars(s, chars) ==
    LET In(c) == c \in chars IN SelectSeq(s, In)

\* int(s, 16) for a string of hex digits.
RECURSIVE int16(_)
int16(s) ==
    IF s = <<>> THEN 0
    ELSE 16 * int16(SubSeq(s, 1, Len(s) - 1))
         + (IndexOf(HexLower, LowerChar(s[Len(s)])[1]) - 1)

\* f"{n:02x}" and f"{n:02X}" for 0 <= n <= 255.
fmt02x(n) == <<HexLower[(n \div 16) + 1], HexLower[(n % 16) + 1]>>

fmt02X(n) == <<HexUpper[(n \div 16) + 1], HexUpper[(n % 16) + 1]>>

\* str(n) for an int n >= 0.
RECURSIVE int_repr(_)
int_repr(n) ==
    IF n < 10 THEN <<Digits[n + 1]>>
    ELSE int_repr(n \div 10) \o <<Digits[(n % 10) + 1]>>

\* int(s) for a string of decimal digits.
RECURSIVE int10(_)
int10(s) ==
    IF s = <<>> THEN 0
    ELSE 10 * int10(SubSeq(s, 1, Len(s) - 1)) + (IndexOf(Digits, s[Len(s)]) - 1)

---------------------------------------------------------------------------
\* class Color

\* __slots__ of each class, with the base class's "_frozen".
Slots(cls) ==
    CASE cls = "RGB" -> {"_frozen", "red", "green", "blue"}
      [] cls = "RGBA" -> {"_frozen", "red", "green", "blue", "alpha"}
      [] cls = "HEX" -> {"_frozen", "value"}
      [] cls = "HSV" -> {"_frozen", "hue", "saturation", "value"}
      [] cls = "HSL" -> {"_frozen", "hue", "saturation", "lightness"}
      [] cls = "CMYK" -> {"_frozen", "cyan", "magenta", "yellow", "key"}
      [] cls = "ASSA" -> {"_frozen", "value"}
      [] cls = "webcolor" -> {"_frozen", "name", "hex_value"}

\* The object with attribute name bound to value.
Put(self, name, value) ==
    [x \in DOMAIN self \cup {name} |-> IF x = name THEN value ELSE self[x]]

\* object.__setattr__ on an object of a class with __slots__.
object_setattr(self, name, value) ==
    IF name \in Slots(self["kind"])
    THEN Ok(Put(self, name, value))
    ELSE Raise("AttributeError")

Color_init(cls) == Put([kind |-> cls], "_frozen", FALSE)

Color_freeze(self) == object_setattr(self, "_frozen", TRUE).val

\* getattr(self, "_frozen", False)
\* A freeze flag that is never found set.
IsFrozen_never(self) == FALSE

IsFrozen(self) == "_frozen" \in DOMAIN self /\ self["_frozen"]

\* A __setattr__ that never looks at the freeze flag.
Color_setattr_unguarded(self, name, value) == object_setattr(self, name, value)

Color_setattr(self, name, value) ==
    IF IsFrozen(self) THEN Raise("AttributeError")
    ELSE object_setattr(self, name, value)

Color_delattr(self, name) == Raise("AttributeError")

\* self.<name> = value inside __init__, where the object is not yet frozen.
Assign(self, name, value) == Color_setattr(self, name, value).val

---------------------------------------------------------------------------
\* class RGB

RGB_tuple(self) == <<self["red"], self["green"], self["blue"]>>

Byte(x) == x[2] = 1 /\ 0 <= x[1] /\ x[1] <= 255

RGB_validate(self) ==
    IF \A i \in 1..3 : Byte(RGB_tuple(self)[i])
    THEN Ok(self) ELSE Raise("ColorValueError")

RGB_new(red, green, blue) ==
    LET s0 == Color_init("RGB")
        s1 == Assign(s0, "red", py_int(red))
        s2 == Assign(s1, "green", py_int(green))
        s3 == Assign(s2, "blue", py_int(blue))
        v == RGB_validate(s3)
    IN  IF v.err # "none" THEN v ELSE Ok(Color_freeze(s3))

---------------------------------------------------------------------------
\* class HEX

HexChars == Range(HexLower) \cup Range(HexUpper)

HEX_validate(self) ==
    LET hex_value == lstrip(self["value"], {"#"})
    IN  IF Len(hex_value) # 6 \/ ~(\A i \in DOMAIN hex_value : hex_value[i] \in HexChars)
        THEN Raise("ColorValueError") ELSE Ok(self)

HEX_new(value) ==
    LET v1 == IF startswith(value, <<"#">>) THEN Tail(value) ELSE value
        s0 == Color_init("HEX")
        s1 == Assign(s0, "value", <<"#">> \o str_lower(v1))
        v == HEX_validate(s1)
    IN  IF v.err # "none" THEN v ELSE Ok(Color_freeze(s1))

---------------------------------------------------------------------------
\* class RGBA

\* 0 <= x <= hi
InRange(x, hi) == QLe(I(0), x) /\ QLe(x, I(hi))

RGBA_validate(self) ==
    IF ~(\A k \in {"red", "green", "blue"} : InRange(self[k], 255))
    THEN Raise("ColorValueError")
    ELSE IF ~InRange(self["alpha"], 1) THEN Raise("ColorValueError")
    ELSE Ok(self)

RGBA_new(red, green, blue, alpha) ==
    LET s0 == Color_init("RGBA")
        s1 == Assign(s0, "red", py_int(red))
        s2 == Assign(s1, "green", py_int(green))
        s3 == Assign(s2, "blue", py_int(blue))
        s4 == Assign(s3, "alpha", py_float(alpha))
        v == RGBA_validate(s4)
    IN  IF v.err # "none" THEN v ELSE Ok(Color_freeze(s4))

---------------------------------------------------------------------------
\* class HSV, class HSL, class CMYK

HSV_validate(self) ==
    IF InRange(self["hue"], 360) /\ InRange(self["saturation"], 100)
       /\ InRange(self["value"], 100)
    THEN Ok(self) ELSE Raise("ColorValueError")

HSV_new(hue, saturation, value) ==
    LET s0 == Color_init("HSV")
        s1 == Assign(s0, "hue", py_float(hue))
        s2 == Assign(s1, "saturation", py_float(saturation))
        s3 == Assign(s2, "value", py_float(value))
        v == HSV_validate(s3)
    IN  IF v.err # "none" THEN v ELSE Ok(Color_freeze(s3))

HSL_validate(self) ==
    IF InRange(self["hue"], 360) /\ InRange(self["saturation"], 100)
       /\ InRange(self["lightness"], 100)
    THEN Ok(self) ELSE Raise("ColorValueError")

HSL_new(hue, saturation, lightness) ==
    LET s0 == Color_init("HSL")
        s1 == Assign(s0, "hue", py_float(hue))
        s2 == Assign(s1, "saturation", py_float(saturation))
        s3 == Assign(s2, "lightness", py_float(lightness))
        v == HSL_validate(s3)
    IN  IF v.err # "none" THEN v ELSE Ok(Color_freeze(s3))

CMYK_validate(self) ==
    IF \A k \in {"cyan", "magenta", "yellow", "key"} : InRange(self[k], 100)
    THEN Ok(self) ELSE Raise("ColorValueError")

CMYK_new(cyan, magenta, yellow, key) ==
    LET s0 == Color_init("CMYK")
        s1 == Assign(s0, "cyan", py_float(cyan))
        s2 == Assign(s1, "magenta", py_float(magenta))
        s3 == Assign(s2, "yellow", py_float(yellow))
        s4 == Assign(s3, "key", py_float(key))
        v == CMYK_validate(s4)
    IN  IF v.err # "none" THEN v ELSE Ok(Color_freeze(s4))

---------------------------------------------------------------------------
\* class ASSA

\* Python's None, where a number may stand instead.
None == <<>>

ASSA_clean_hex(value) == KeepChars(str_upper(value), Range(HexUpper))

ASSA_is_valid_format(value) == Len(ASSA_clean_hex(value)) \in {6, 8}

ASSA_validate(self) ==
    IF ~ASSA_is_valid_format(self["value"])
    THEN Raise("ColorValueError") ELSE Ok(self)

ASSA_new(value) ==
    LET clean_value == KeepChars(str_lower(value), Range(HexLower))
        s0 == Color_init("ASSA")
        s1 == Assign(s0, "value", <<"&", "H">> \o clean_value \o <<"&">>)
        v == ASSA_validate(s1)
    IN  IF v.err # "none" THEN v ELSE Ok(Color_freeze(s1))

ASSA_clean_value(self) ==
    LET value == self["value"]
    IN  IF (startswith(value, <<"&", "H">>) \/ startswith(value, <<"&", "h">>))
           /\ endswith(value, <<"&">>)
        THEN str_lower(SubSeq(value, 3, Len(value) - 1))
        ELSE str_lower(value)

ASSA_from_rgb(rgb, alpha) ==
    IF alpha # None /\ ~InRange(alpha, 255) THEN Raise("ColorValueError")
    ELSE IF alpha = None
    THEN ASSA_new(fmt02X(rgb["blue"][1]) \o fmt02X(rgb["green"][1])
                  \o fmt02X(rgb["red"][1]))
    ELSE ASSA_new(fmt02X(alpha[1]) \o fmt02X(rgb["blue"][1])
                  \o fmt02X(rgb["green"][1]) \o fmt02X(rgb["red"][1]))

ASSA_from_clean_value(value) ==
    LET clean == ASSA_clean_hex(value)
    IN  IF Len(clean) \notin {6, 8} THEN Raise("ColorValueError")
        ELSE ASSA_new(clean)

ASSA_from_value(value) ==
    ASSA_new(KeepChars(str_lower(value), Range(HexLower)))

ASSA_alpha(self) ==
    LET clean == ASSA_clean_value(self)
    IN  IF Len(clean) = 6 THEN None ELSE I(int16(SubSeq(clean, 1, 2)))

ASSA_blue(self) ==
    LET clean == ASSA_clean_value(self)
    IN  IF Len(clean) = 6 THEN I(int16(SubSeq(clean, 1, 2)))
        ELSE I(int16(SubSeq(clean, 3, 4)))

ASSA_green(self) ==
    LET clean == ASSA_clean_value(self)
    IN  IF Len(clean) = 6 THEN I(int16(SubSeq(clean, 3, 4)))
        ELSE I(int16(SubSeq(clean, 5, 6)))

ASSA_red(self) ==
    LET clean == ASSA_clean_value(self)
    IN  IF Len(clean) = 6 THEN I(int16(SubSeq(clean, 5, 6)))
        ELSE I(int16(SubSeq(clean, 7, 8)))

---------------------------------------------------------------------------
\* class webcolor

\* CSS_COLOR_TO_HEX: the name and the value of each entry, in the table's
\* order.
CSS_COLOR_TO_HEX ==
    <<
       <<<<"a", "l", "i", "c", "e", "b", "l", "u", "e">>,
         <<"#", "F", "0", "F", "8", "F", "F">>>>,
       <<<<"a", "n", "t", "i", "q", "u", "e", "w", "h", "i", "t", "e">>,
         <<"#", "F", "A", "E", "B", "D", "7">>>>,
       <<<<"a", "q", "u", "a">>,
         <<"#", "0", "0", "F", "F", "F", "F">>>>,
       <<<<"a", "q", "u", "a", "m", "a", "r", "i", "n", "e">>,
         <<"#", "7", "F", "F", "F", "D", "4">>>>,
       <<<<"a", "z", "u", "r", "e">>,
         <<"#", "F", "0", "F", "F", "F", "F">>>>,
       <<<<"b", "e", "i", "g", "e">>,
         <<"#", "F", "5", "F", "5", "D", "C">>>>,
       <<<<"b", "i", "s", "q", "u", "e">>,
         <<"#", "F", "F", "E", "4", "C", "4">>>>,
       <<<<"b", "l", "a", "c", "k">>,
         <<"#", "0", "0", "0", "0", "0", "0">>>>,
       <<<<"b", "l", "a", "n", "c", "h", "e", "d", "a", "l", "m", "o", "n", "d">>,
         <<"#", "F", "F", "E", "B", "C", "D">>>>,
       <<<<"b", "l", "u", "e">>,
         <<"#", "0", "0", "0", "0", "F", "F">>>>,
       <<<<"b", "l", "u", "e", "v", "i", "o", "l", "e", "t">>,
         <<"#", "8", "A", "2", "B", "E", "2">>>>,
       <<<<"b", "r", "o", "w", "n">>,
         <<"#", "A", "5", "2", "A", "2", "A">>>>,
       <<<<"b", "u", "r", "l", "y", "w", "o", "o", "d">>,
         <<"#", "D", "E", "B", "8", "8", "7">>>>,
       <<<<"c", "a", "d", "e", "t", "b", "l", "u", "e">>,
         <<"#", "5", "F", "9", "E", "A", "0">>>>,
       <<<<"c", "h", "a", "r", "t", "r", "e", "u", "s", "e">>,
         <<"#", "7", "F", "F", "F", "0", "0">>>>,
       <<<<"c", "h", "o", "c", "o", "l", "a", "t", "e">>,
         <<"#", "D", "2", "6", "9", "1", "E">>>>,
       <<<<"c", "o", "r", "a", "l">>,
         <<"#", "F", "F", "7", "F", "5", "0">>>>,
       <<<<"c", "o", "r", "n", "f", "l", "o", "w", "e", "r", "b", "l", "u", "e">>,
         <<"#", "6", "4", "9", "5", "E", "D">>>>,
       <<<<"c", "o", "r", "n", "s", "i", "l", "k">>,
         <<"#", "F", "F", "F", "8", "D", "C">>>>,
       <<<<"c", "r", "i", "m", "s", "o", "n">>,
         <<"#", "D", "C", "1", "4", "3", "C">>>>,
       <<<<"c", "y", "a", "n">>,
         <<"#", "0", "0", "F", "F", "F", "F">>>>,
       <<<<"d", "a", "r", "k", "b", "l", "u", "e">>,
         <<"#", "0", "0", "0", "0", "8", "B">>>>,
       <<<<"d", "a", "r", "k", "c", "y", "a", "n">>,
         <<"#", "0", "0", "8", "B", "8", "B">>>>,
       <<<<"d", "a", "r", "k", "g", "o", "l", "d", "e", "n", "r", "o", "d">>,
         <<"#", "B", "8", "8", "6", "0", "B">>>>,
       <<<<"d", "a", "r", "k", "g", "r", "a", "y">>,
         <<"#", "A", "9", "A", "9", "A", "9">>>>,
       <<<<"d", "a", "r", "k", "g", "r", "e", "y">>,
         <<"#", "A", "9", "A", "9", "A", "9">>>>,
       <<<<"d", "a", "r", "k", "g", "r", "e", "e", "n">>,
         <<"#", "0", "0", "6", "4", "0", "0">>>>,
       <<<<"d", "a", "r", "k", "k", "h", "a", "k", "i">>,
         <<"#", "B", "D", "B", "7", "6", "B">>>>,
       <<<<"d", "a", "r", "k", "m", "a", "g", "e", "n", "t", "a">>,
         <<"#", "8", "B", "0", "0", "8", "B">>>>,
       <<<<"d", "a", "r", "k", "o", "l", "i", "v", "e", "g", "r", "e", "e", "n">>,
         <<"#", "5", "5", "6", "B", "2", "F">>>>,
       <<<<"d", "a", "r", "k", "o", "r", "a", "n", "g", "e">>,
         <<"#", "F", "F", "8", "C", "0", "0">>>>,
       <<<<"d", "a", "r", "k", "o", "r", "c", "h", "i", "d">>,
         <<"#", "9", "9", "3", "2", "C", "C">>>>,
       <<<<"d", "a", "r", "k", "r", "e", "d">>,
         <<"#", "8", "B", "0", "0", "0", "0">>>>,
       <<<<"d", "a", "r", "k", "s", "a", "l", "m", "o", "n">>,
         <<"#", "E", "9", "9", "6", "7", "A">>>>,
       <<<<"d", "a", "r", "k", "s", "e", "a", "g", "r", "e", "e", "n">>,
         <<"#", "8", "F", "B", "C", "8", "F">>>>,
       <<<<"d", "a", "r", "k", "s", "l", "a", "t", "e", "b", "l", "u", "e">>,
         <<"#", "4", "8", "3", "D", "8", "B">>>>,
       <<<<"d", "a", "r", "k", "s", "l", "a", "t", "e", "g", "r", "a", "y">>,
         <<"#", "2", "F", "4", "F", "4", "F">>>>,
       <<<<"d", "a", "r", "k", "s", "l", "a", "t", "e", "g", "r", "e", "y">>,
         <<"#", "2", "F", "4", "F", "4", "F">>>>,
       <<<<"d", "a", "r", "k", "t", "u", "r", "q", "u", "o", "i", "s", "e">>,
         <<"#", "0", "0", "C", "E", "D", "1">>>>,
       <<<<"d", "a", "r", "k", "v", "i", "o", "l", "e", "t">>,
         <<"#", "9", "4", "0", "0", "D", "3">>>>,
       <<<<"d", "e", "e", "p", "p", "i", "n", "k">>,
         <<"#", "F", "F", "1", "4", "9", "3">>>>,
       <<<<"d", "e", "e", "p", "s", "k", "y", "b", "l", "u", "e">>,
         <<"#", "0", "0", "B", "F", "F", "F">>>>,
       <<<<"d", "i", "m", "g", "r", "a", "y">>,
         <<"#", "6", "9", "6", "9", "6", "9">>>>,
       <<<<"d", "i", "m", "g", "r", "e", "y">>,
         <<"#", "6", "9", "6", "9", "6", "9">>>>,
       <<<<"d", "o", "d", "g", "e", "r", "b", "l", "u", "e">>,
         <<"#", "1", "E", "9", "0", "F", "F">>>>,
       <<<<"f", "i", "r", "e", "b", "r", "i", "c", "k">>,
         <<"#", "B", "2", "2", "2", "2", "2">>>>,
       <<<<"f", "l", "o", "r", "a", "l", "w", "h", "i", "t", "e">>,
         <<"#", "F", "F", "F", "A", "F", "0">>>>,
       <<<<"f", "o", "r", "e", "s", "t", "g", "r", "e", "e", "n">>,
         <<"#", "2", "2", "8", "B", "2", "2">>>>,
       <<<<"f", "u", "c", "h", "s", "i", "a">>,
         <<"#", "F", "F", "0", "0", "F", "F">>>>,
       <<<<"g", "a", "i", "n", "s", "b", "o", "r", "o">>,
         <<"#", "D", "C", "D", "C", "D", "C">>>>,
       <<<<"g", "h", "o", "s", "t", "w", "h", "i", "t", "e">>,
         <<"#", "F", "8", "F", "8", "F", "F">>>>,
       <<<<"g", "o", "l", "d">>,
         <<"#", "F", "F", "D", "7", "0", "0">>>>,
       <<<<"g", "o", "l", "d", "e", "n", "r", "o", "d">>,
         <<"#", "D", "A", "A", "5", "2", "0">>>>,
       <<<<"g", "r", "a", "y">>,
         <<"#", "8", "0", "8", "0", "8", "0">>>>,
       <<<<"g", "r", "e", "y">>,
         <<"#", "8", "0", "8", "0", "8", "0">>>>,
       <<<<"g", "r", "e", "e", "n">>,
         <<"#", "0", "0", "8", "0", "0", "0">>>>,
       <<<<"g", "r", "e", "e", "n", "y", "e", "l", "l", "o", "w">>,
         <<"#", "A", "D", "F", "F", "2", "F">>>>,
       <<<<"h", "o", "n", "e", "y", "d", "e", "w">>,
         <<"#", "F", "0", "F", "F", "F", "0">>>>,
       <<<<"h", "o", "t", "p", "i", "n", "k">>,
         <<"#", "F", "F", "6", "9", "B", "4">>>>,
       <<<<"i", "n", "d", "i", "a", "n", "r", "e", "d">>,
         <<"#", "C", "D", "5", "C", "5", "C">>>>,
       <<<<"i", "n", "d", "i", "g", "o">>,
         <<"#", "4", "B", "0", "0", "8", "2">>>>,
       <<<<"i", "v", "o", "r", "y">>,
         <<"#", "F", "F", "F", "F", "F", "0">>>>,
       <<<<"k", "h", "a", "k", "i">>,
         <<"#", "F", "0", "E", "6", "8", "C">>>>,
       <<<<"l", "a", "v", "e", "n", "d", "e", "r">>,
         <<"#", "E", "6", "E", "6", "F", "A">>>>,
       <<<<"l", "a", "v", "e", "n", "d", "e", "r", "b", "l", "u", "s", "h">>,
         <<"#", "F", "F", "F", "0", "F", "5">>>>,
       <<<<"l", "a", "w", "n", "g", "r", "e", "e", "n">>,
         <<"#", "7", "C", "F", "C", "0", "0">>>>,
       <<<<"l", "e", "m", "o", "n", "c", "h", "i", "f", "f", "o", "n">>,
         <<"#", "F", "F", "F", "A", "C", "D">>>>,
       <<<<"l", "i", "g", "h", "t", "b", "l", "u", "e">>,
         <<"#", "A", "D", "D", "8", "E", "6">>>>,
       <<<<"l", "i", "g", "h", "t", "c", "o", "r", "a", "l">>,
         <<"#", "F", "0", "8", "0", "8", "0">>>>,
       <<<<"l", "i", "g", "h", "t", "c", "y", "a", "n">>,
         <<"#", "E", "0", "F", "F", "F", "F">>>>,
       <<<<"l", "i", "g", "h", "t", "g", "o", "l", "d", "e", "n", "r", "o", "d", "y", "e", "l", "l", "o", "w">>,
         <<"#", "F", "A", "F", "A", "D", "2">>>>,
       <<<<"l", "i", "g", "h", "t", "g", "r", "a", "y">>,
         <<"#", "D", "3", "D", "3", "D", "3">>>>,
       <<<<"l", "i", "g", "h", "t", "g", "r", "e", "y">>,
         <<"#", "D", "3", "D", "3", "D", "3">>>>,
       <<<<"l", "i", "g", "h", "t", "g", "r", "e", "e", "n">>,
         <<"#", "9", "0", "E", "E", "9", "0">>>>,
       <<<<"l", "i", "g", "h", "t", "p", "i", "n", "k">>,
         <<"#", "F", "F", "B", "6", "C", "1">>>>,
       <<<<"l", "i", "g", "h", "t", "s", "a", "l", "m", "o", "n">>,
         <<"#", "F", "F", "A", "0", "7", "A">>>>,
       <<<<"l", "i", "g", "h", "t", "s", "e", "a", "g", "r", "e", "e", "n">>,
         <<"#", "2", "0", "B", "2", "A", "A">>>>,
       <<<<"l", "i", "g", "h", "t", "s", "k", "y", "b", "l", "u", "e">>,
         <<"#", "8", "7", "C", "E", "F", "A">>>>,
       <<<<"l", "i", "g", "h", "t", "s", "l", "a", "t", "e", "g", "r", "a", "y">>,
         <<"#", "7", "7", "8", "8", "9", "9">>>>,
       <<<<"l", "i", "g", "h", "t", "s", "l", "a", "t", "e", "g", "r", "e", "y">>,
         <<"#", "7", "7", "8", "8", "9", "9">>>>,
       <<<<"l", "i", "g", "h", "t", "s", "t", "e", "e", "l", "b", "l", "u", "e">>,
         <<"#", "B", "0", "C", "4", "D", "E">>>>,
       <<<<"l", "i", "g", "h", "t", "y", "e", "l", "l", "o", "w">>,
         <<"#", "F", "F", "F", "F", "E", "0">>>>,
       <<<<"l", "i", "m", "e">>,
         <<"#", "0", "0", "F", "F", "0", "0">>>>,
       <<<<"l", "i", "m", "e", "g", "r", "e", "e", "n">>,
         <<"#", "3", "2", "C", "D", "3", "2">>>>,
       <<<<"l", "i", "n", "e", "n">>,
         <<"#", "F", "A", "F", "0", "E", "6">>>>,
       <<<<"m", "a", "g", "e", "n", "t", "a">>,
         <<"#", "F", "F", "0", "0", "F", "F">>>>,
       <<<<"m", "a", "r", "o", "o", "n">>,
         <<"#", "8", "0", "0", "0", "0", "0">>>>,
       <<<<"m", "e", "d", "i", "u", "m", "a", "q", "u", "a", "m", "a", "r", "i", "n", "e">>,
         <<"#", "6", "6", "C", "D", "A", "A">>>>,
       <<<<"m", "e", "d", "i", "u", "m", "b", "l", "u", "e">>,
         <<"#", "0", "0", "0", "0", "C", "D">>>>,
       <<<<"m", "e", "d", "i", "u", "m", "o", "r", "c", "h", "i", "d">>,
         <<"#", "B", "A", "5", "5", "D", "3">>>>,
       <<<<"m", "e", "d", "i", "u", "m", "p", "u", "r", "p", "l", "e">>,
         <<"#", "9", "3", "7", "0", "D", "B">>>>,
       <<<<"m", "e", "d", "i", "u", "m", "s", "e", "a", "g", "r", "e", "e", "n">>,
         <<"#", "3", "C", "B", "3", "7", "1">>>>,
       <<<<"m", "e", "d", "i", "u", "m", "s", "l", "a", "t", "e", "b", "l", "u", "e">>,
         <<"#", "7", "B", "6", "8", "E", "E">>>>,
       <<<<"m", "e", "d", "i", "u", "m", "s", "p", "r", "i", "n", "g", "g", "r", "e", "e", "n">>,
         <<"#", "0", "0", "F", "A", "9", "A">>>>,
       <<<<"m", "e", "d", "i", "u", "m", "t", "u", "r", "q", "u", "o", "i", "s", "e">>,
         <<"#", "4", "8", "D", "1", "C", "C">>>>,
       <<<<"m", "e", "d", "i", "u", "m", "v", "i", "o", "l", "e", "t", "r", "e", "d">>,
         <<"#", "C", "7", "1", "5", "8", "5">>>>,
       <<<<"m", "i", "d", "n", "i", "g", "h", "t", "b", "l", "u", "e">>,
         <<"#", "1", "9", "1", "9", "7", "0">>>>,
       <<<<"m", "i", "n", "t", "c", "r", "e", "a", "m">>,
         <<"#", "F", "5", "F", "F", "F", "A">>>>,
       <<<<"m", "i", "s", "t", "y", "r", "o", "s", "e">>,
         <<"#", "F", "F", "E", "4", "E", "1">>>>,
       <<<<"m", "o", "c", "c", "a", "s", "i", "n">>,
         <<"#", "F", "F", "E", "4", "B", "5">>>>,
       <<<<"n", "a", "v", "a", "j", "o", "w", "h", "i", "t", "e">>,
         <<"#", "F", "F", "D", "E", "A", "D">>>>,
       <<<<"n", "a", "v", "y">>,
         <<"#", "0", "0", "0", "0", "8", "0">>>>,
       <<<<"o", "l", "d", "l", "a", "c", "e">>,
         <<"#", "F", "D", "F", "5", "E", "6">>>>,
       <<<<"o", "l", "i", "v", "e">>,
         <<"#", "8", "0", "8", "0", "0", "0">>>>,
       <<<<"o", "l", "i", "v", "e", "d", "r", "a", "b">>,
         <<"#", "6", "B", "8", "E", "2", "3">>>>,
       <<<<"o", "r", "a", "n", "g", "e">>,
         <<"#", "F", "F", "A", "5", "0", "0">>>>,
       <<<<"o", "r", "a", "n", "g", "e", "r", "e", "d">>,
         <<"#", "F", "F", "4", "5", "0", "0">>>>,
       <<<<"o", "r", "c", "h", "i", "d">>,
         <<"#", "D", "A", "7", "0", "D", "6">>>>,
       <<<<"p", "a", "l", "e", "g", "o", "l", "d", "e", "n", "r", "o", "d">>,
         <<"#", "E", "E", "E", "8", "A", "A">>>>,
       <<<<"p", "a", "l", "e", "g", "r", "e", "e", "n">>,
         <<"#", "9", "8", "F", "B", "9", "8">>>>,
       <<<<"p", "a", "l", "e", "t", "u", "r", "q", "u", "o", "i", "s", "e">>,
         <<"#", "A", "F", "E", "E", "E", "E">>>>,
       <<<<"p", "a", "l", "e", "v", "i", "o", "l", "e", "t", "r", "e", "d">>,
         <<"#", "D", "B", "7", "0", "9", "3">>>>,
       <<<<"p", "a", "p", "a", "y", "a", "w", "h", "i", "p">>,
         <<"#", "F", "F", "E", "F", "D", "5">>>>,
       <<<<"p", "e", "a", "c", "h", "p", "u", "f", "f">>,
         <<"#", "F", "F", "D", "A", "B", "9">>>>,
       <<<<"p", "e", "r", "u">>,
         <<"#", "C", "D", "8", "5", "3", "F">>>>,
       <<<<"p", "i", "n", "k">>,
         <<"#", "F", "F", "C", "0", "C", "B">>>>,
       <<<<"p", "l", "u", "m">>,
         <<"#", "D", "D", "A", "0", "D", "D">>>>,
       <<<<"p", "o", "w", "d", "e", "r", "b", "l", "u", "e">>,
         <<"#", "B", "0", "E", "0", "E", "6">>>>,
       <<<<"p", "u", "r", "p", "l", "e">>,
         <<"#", "8", "0", "0", "0", "8", "0">>>>,
       <<<<"r", "e", "b", "e", "c", "c", "a", "p", "u", "r", "p", "l", "e">>,
         <<"#", "6", "6", "3", "3", "9", "9">>>>,
       <<<<"r", "e", "d">>,
         <<"#", "F", "F", "0", "0", "0", "0">>>>,
       <<<<"r", "o", "s", "y", "b", "r", "o", "w", "n">>,
         <<"#", "B", "C", "8", "F", "8", "F">>>>,
       <<<<"r", "o", "y", "a", "l", "b", "l", "u", "e">>,
         <<"#", "4", "1", "6", "9", "E", "1">>>>,
       <<<<"s", "a", "d", "d", "l", "e", "b", "r", "o", "w", "n">>,
         <<"#", "8", "B", "4", "5", "1", "3">>>>,
       <<<<"s", "a", "l", "m", "o", "n">>,
         <<"#", "F", "A", "8", "0", "7", "2">>>>,
       <<<<"s", "a", "n", "d", "y", "b", "r", "o", "w", "n">>,
         <<"#", "F", "4", "A", "4", "6", "0">>>>,
       <<<<"s", "e", "a", "g", "r", "e", "e", "n">>,
         <<"#", "2", "E", "8", "B", "5", "7">>>>,
       <<<<"s", "e", "a", "s", "h", "e", "l", "l">>,
         <<"#", "F", "F", "F", "5", "E", "E">>>>,
       <<<<"s", "i", "e", "n", "n", "a">>,
         <<"#", "A", "0", "5", "2", "2", "D">>>>,
       <<<<"s", "i", "l", "v", "e", "r">>,
         <<"#", "C", "0", "C", "0", "C", "0">>>>,
       <<<<"s", "k", "y", "b", "l", "u", "e">>,
         <<"#", "8", "7", "C", "E", "E", "B">>>>,
       <<<<"s", "l", "a", "t", "e", "b", "l", "u", "e">>,
         <<"#", "6", "A", "5", "A", "C", "D">>>>,
       <<<<"s", "l", "a", "t", "e", "g", "r", "a", "y">>,
         <<"#", "7", "0", "8", "0", "9", "0">>>>,
       <<<<"s", "l", "a", "t", "e", "g", "r", "e", "y">>,
         <<"#", "7", "0", "8", "0", "9", "0">>>>,
       <<<<"s", "n", "o", "w">>,
         <<"#", "F", "F", "F", "A", "F", "A">>>>,
       <<<<"s", "p", "r", "i", "n", "g", "g", "r", "e", "e", "n">>,
         <<"#", "0", "0", "F", "F", "7", "F">>>>,
       <<<<"s", "t", "e", "e", "l", "b", "l", "u", "e">>,
         <<"#", "4", "6", "8", "2", "B", "4">>>>,
       <<<<"t", "a", "n">>,
         <<"#", "D", "2", "B", "4", "8", "C">>>>,
       <<<<"t", "e", "a", "l">>,
         <<"#", "0", "0", "8", "0", "8", "0">>>>,
       <<<<"t", "h", "i", "s", "t", "l", "e">>,
         <<"#", "D", "8", "B", "F", "D", "8">>>>,
       <<<<"t", "o", "m", "a", "t", "o">>,
         <<"#", "F", "F", "6", "3", "4", "7">>>>,
       <<<<"t", "u", "r", "q", "u", "o", "i", "s", "e">>,
         <<"#", "4", "0", "E", "0", "D", "0">>>>,
       <<<<"v", "i", "o", "l", "e", "t">>,
         <<"#", "E", "E", "8", "2", "E", "E">>>>,
       <<<<"w", "h", "e", "a", "t">>,
         <<"#", "F", "5", "D", "E", "B", "3">>>>,
       <<<<"w", "h", "i", "t", "e">>,
         <<"#", "F", "F", "F", "F", "F", "F">>>>,
       <<<<"w", "h", "i", "t", "e", "s", "m", "o", "k", "e">>,
         <<"#", "F", "5", "F", "5", "F", "5">>>>,
       <<<<"y", "e", "l", "l", "o", "w">>,
         <<"#", "F", "F", "F", "F", "0", "0">>>>,
       <<<<"y", "e", "l", "l", "o", "w", "g", "r", "e", "e", "n">>,
         <<"#", "9", "A", "C", "D", "3", "2">>>> >>

\* name in COLORS
InColors(name) == \E i \in DOMAIN CSS_COLOR_TO_HEX : CSS_COLOR_TO_HEX[i][1] = name

\* COLORS[name]
ColorsGet(name) ==
    CSS_COLOR_TO_HEX[CHOOSE i \in DOMAIN CSS_COLOR_TO_HEX :
                         CSS_COLOR_TO_HEX[i][1] = name][2]

webcolor_validate(self) ==
    IF ~InColors(self["name"]) THEN Raise("ColorValueError") ELSE Ok(self)

\* webcolor(name) looking the name up as it is given.
webcolor_new_exact(name) ==
    LET s0 == Color_init("webcolor")
        s1 == Assign(s0, "name", name)
        v == webcolor_validate(s1)
    IN  IF v.err # "none" THEN v
        ELSE LET h == HEX_new(ColorsGet(name))
             IN  IF h.err # "none" THEN h
                 ELSE Ok(Color_freeze(Assign(s1, "hex_value", h.val)))

webcolor_new(name) ==
    LET lname == str_lower(name)
        s0 == Color_init("webcolor")
        s1 == Assign(s0, "name", lname)
        v == webcolor_validate(s1)
    IN  IF v.err # "none" THEN v
        ELSE LET h == HEX_new(ColorsGet(lname))
             IN  IF h.err # "none" THEN h
                 ELSE Ok(Color_freeze(Assign(s1, "hex_value", h.val)))

\* color.lower() of each entry of the table.
LowerHex == [i \in DOMAIN CSS_COLOR_TO_HEX |-> str_lower(CSS_COLOR_TO_HEX[i][2])]

\* webcolor.from_hex returning the last entry that matches.
webcolor_from_hex_last(value) ==
    LET lvalue == str_lower(value)
        hits == {i \in DOMAIN LowerHex : LowerHex[i] = lvalue}
    IN  IF hits = {} THEN Raise("ColorValueError")
        ELSE webcolor_new(CSS_COLOR_TO_HEX[CHOOSE i \in hits :
                                               \A j \in hits : i >= j][1])

webcolor_from_hex(value) ==
    LET lvalue == str_lower(value)
        hits == {i \in DOMAIN LowerHex : LowerHex[i] = lvalue}
    IN  IF hits = {} THEN Raise("ColorValueError")
        ELSE webcolor_new(CSS_COLOR_TO_HEX[CHOOSE i \in hits :
                                               \A j \in hits : i <= j][1])

---------------------------------------------------------------------------
\* Conversions

\* The call F on the value of o, unless o raised.
Then(o, F(_)) == IF o.err # "none" THEN o ELSE F(o.val)

\* The hue formula without its "% 360".
HueSector_unwrapped(p, diff, offset) ==
    QAdd(QMul(I(60), QDiv(p, diff)), I(offset))

\* The hue wrapped into (0, 360]: a full turn stays 360.
HueSector_full_turn(p, diff, offset) ==
    LET h == QMod(QAdd(QMul(I(60), QDiv(p, diff)), I(offset)), I(360))
    IN  IF h = I(0) THEN I(360) ELSE h

\* 60 * (p / diff) + offset, modulo 360
HueSector(p, diff, offset) ==
    QMod(QAdd(QMul(I(60), QDiv(p, diff)), I(offset)), I(360))

RGB_to_hsv(self) ==
    LET r == QDiv(self["red"], I(255))
        g == QDiv(self["green"], I(255))
        b == QDiv(self["blue"], I(255))
        cmax == QMax3(r, g, b)
        cmin == QMin3(r, g, b)
        diff == QSub(cmax, cmin)
        h == IF cmax = cmin THEN I(0)
             ELSE IF cmax = r THEN HueSector(QSub(g, b), diff, 360)
             ELSE IF cmax = g THEN HueSector(QSub(b, r), diff, 120)
             ELSE HueSector(QSub(r, g), diff, 240)
        s == IF cmax = I(0) THEN I(0) ELSE QDiv(diff, cmax)
        v == cmax
    IN  HSV_new(h, QMul(s, I(100)), QMul(v, I(100)))

RGB_to_hsl(self) ==
    LET r == QDiv(self["red"], I(255))
        g == QDiv(self["green"], I(255))
        b == QDiv(self["blue"], I(255))
        cmax == QMax3(r, g, b)
        cmin == QMin3(r, g, b)
        diff == QSub(cmax, cmin)
        l == QDiv(QAdd(cmax, cmin), I(2))
        s == IF diff = I(0) THEN I(0)
             ELSE IF QLt(Q(1, 2), l)
             THEN QDiv(diff, QSub(QSub(I(2), cmax), cmin))
             ELSE QDiv(diff, QAdd(cmax, cmin))
        h == IF diff = I(0) THEN I(0)
             ELSE IF cmax = r THEN HueSector(QSub(g, b), diff, 360)
             ELSE IF cmax = g THEN HueSector(QSub(b, r), diff, 120)
             ELSE HueSector(QSub(r, g), diff, 240)
    IN  HSL_new(h, QMul(s, I(100)), QMul(l, I(100)))

\* to_cmyk that divides by 1 - k for black as well.
RGB_to_cmyk_dividing(self) ==
    LET r == QDiv(self["red"], I(255))
        g == QDiv(self["green"], I(255))
        b == QDiv(self["blue"], I(255))
        k == QSub(I(1), QMax3(r, g, b))
        Ink(x) == QDiv(QSub(QSub(I(1), x), k), QSub(I(1), k))
    IN  IF k = I(1) THEN Raise("ZeroDivisionError")
        ELSE CMYK_new(QMul(Ink(r), I(100)), QMul(Ink(g), I(100)),
                      QMul(Ink(b), I(100)), QMul(k, I(100)))

RGB_to_cmyk(self) ==
    LET r == QDiv(self["red"], I(255))
        g == QDiv(self["green"], I(255))
        b == QDiv(self["blue"], I(255))
        k == QSub(I(1), QMax3(r, g, b))
        Ink(x) == IF k = I(1) THEN I(0)
                  ELSE QDiv(QSub(QSub(I(1), x), k), QSub(I(1), k))
    IN  CMYK_new(QMul(Ink(r), I(100)), QMul(Ink(g), I(100)),
                 QMul(Ink(b), I(100)), QMul(k, I(100)))

RGB_to_hex(self) ==
    HEX_new(<<"#">> \o fmt02x(self["red"][1]) \o fmt02x(self["green"][1])
            \o fmt02x(self["blue"][1]))

RGB_to_rgba(self, alpha) ==
    RGBA_new(self["red"], self["green"], self["blue"], alpha)

RGB_to_assa(self) == ASSA_from_rgb(self, None)

RGBA_to_rgb(self) == RGB_new(self["red"], self["green"], self["blue"])

\* The alpha byte taken as round(alpha * 255), without "1 -".
ASSA_from_rgba_direct(rgba) ==
    LET F(rgb) == ASSA_from_rgb(rgb, py_round(QMul(rgba["alpha"], I(255))))
    IN  Then(RGBA_to_rgb(rgba), F)

ASSA_from_rgba(rgba) ==
    LET F(rgb) == ASSA_from_rgb(rgb,
                      py_round(QMul(QSub(I(1), rgba["alpha"]), I(255))))
    IN  Then(RGBA_to_rgb(rgba), F)

HEX_to_rgb(self) ==
    LET hex_value == lstrip(self["value"], {"#"})
    IN  RGB_new(I(int16(SubSeq(hex_value, 1, 2))), I(int16(SubSeq(hex_value, 3, 4))),
                I(int16(SubSeq(hex_value, 5, 6))))

HEX_to_webcolor(self) == webcolor_from_hex(self["value"])

\* The channels without the factor (1 - k).
CMYK_to_rgb_keyless(self) ==
    LET Chan(name) ==
            py_round(QMul(I(255), QSub(I(1), QDiv(self[name], I(100)))))
    IN  RGB_new(Chan("cyan"), Chan("magenta"), Chan("yellow"))

\* RGB(round(r), round(g), round(b)) for the rounded floats rgb.
RGB_rounded(rgb) == RGB_new(rgb[1], rgb[2], rgb[3])

\* The floats (r + m) * 255, (g + m) * 255, (b + m) * 255 of HSV.to_rgb.
HSV_floats(hsv) ==
    LET Sector(h, c, x) ==
            IF FLe(I(0), h) /\ FLt(h, I(60)) THEN <<c, x, I(0)>>
            ELSE IF FLe(I(60), h) /\ FLt(h, I(120)) THEN <<x, c, I(0)>>
            ELSE IF FLe(I(120), h) /\ FLt(h, I(180)) THEN <<I(0), c, x>>
            ELSE IF FLe(I(180), h) /\ FLt(h, I(240)) THEN <<I(0), x, c>>
            ELSE IF FLe(I(240), h) /\ FLt(h, I(300)) THEN <<x, I(0), c>>
            ELSE <<c, I(0), x>>
        Mixed(rgb, m) == [i \in 1..3 |-> FMul(FAdd(rgb[i], m), I(255))]
        Chroma(h, v, c) ==
            Mixed(Sector(h, c, FMul(c, FSub(I(1), FAbs(FSub(FMod(FDiv(h, I(60)),
                                                              I(2)), I(1)))))),
                  FSub(v, c))
        Scaled(h, s, v) == Chroma(h, v, FMul(v, s))
    IN  Scaled(hsv[1], FDiv(hsv[2], I(100)), FDiv(hsv[3], I(100)))

HSV_to_rgb(self) ==
    LET fields == <<self["hue"], self["saturation"], self["value"]>>
    IN  RGB_rounded(py_round_floats(HSV_floats(fields),
                                    HSV_floats(AsDoubles(fields))))

hue_to_rgb(p, q, t0) ==
    LET Raised(t) == IF FLt(t, I(0)) THEN FAdd(t, I(1)) ELSE t
        Lowered(t) == IF FLt(I(1), t) THEN FSub(t, I(1)) ELSE t
        Ramp(t) ==
            IF FLt(t, Q(1, 6)) THEN FAdd(p, FMul(FMul(FSub(q, p), I(6)), t))
            ELSE IF FLt(t, Q(1, 2)) THEN q
            ELSE IF FLt(t, Q(2, 3))
            THEN FAdd(p, FMul(FMul(FSub(q, p), FSub(Q(2, 3), t)), I(6)))
            ELSE p
    IN  Ramp(Lowered(Raised(t0)))

\* The floats r * 255, g * 255, b * 255 of HSL.to_rgb.
HSL_floats(hsl) ==
    LET Channels(hue, p, q) ==
            [i \in 1..3 |->
                hue_to_rgb(p, q, IF i = 1 THEN FAdd(hue, Q(1, 3))
                                 ELSE IF i = 2 THEN hue
                                 ELSE FSub(hue, Q(1, 3)))]
        Shaded(hue, lightness, q) ==
            Channels(hue, FSub(FMul(I(2), lightness), q), q)
        Scaled(hue, saturation, lightness) ==
            IF FEq(saturation, I(0)) THEN <<lightness, lightness, lightness>>
            ELSE Shaded(hue, lightness,
                        IF FLt(lightness, Q(1, 2))
                        THEN FMul(lightness, FAdd(I(1), saturation))
                        ELSE FSub(FAdd(lightness, saturation),
                                  FMul(lightness, saturation)))
        By255(rgb) == [i \in 1..3 |-> FMul(rgb[i], I(255))]
    IN  By255(Scaled(FDiv(hsl[1], I(360)), FDiv(hsl[2], I(100)),
                     FDiv(hsl[3], I(100))))

HSL_to_rgb(self) ==
    LET fields == <<self["hue"], self["saturation"], self["lightness"]>>
    IN  RGB_rounded(py_round_floats(HSL_floats(fields),
                                    HSL_floats(AsDoubles(fields))))

\* The floats r, g, b of CMYK.to_rgb.
CMYK_floats(cmyk) ==
    [i \in 1..3 |->
        FMul(FMul(I(255), FSub(I(1), FDiv(cmyk[i], I(100)))),
             FSub(I(1), FDiv(cmyk[4], I(100))))]

CMYK_to_rgb(self) ==
    LET fields == <<self["cyan"], self["magenta"], self["yellow"], self["key"]>>
    IN  RGB_rounded(py_round_floats(CMYK_floats(fields),
                                    CMYK_floats(AsDoubles(fields))))

\* The digits read in the order red, green, blue.
ASSA_to_rgb_forward(self) ==
    LET clean == ASSA_clean_value(self)
        off == IF Len(clean) = 6 THEN 0 ELSE 2
    IN  RGB_new(I(int16(SubSeq(clean, off + 1, off + 2))),
                I(int16(SubSeq(clean, off + 3, off + 4))),
                I(int16(SubSeq(clean, off + 5, off + 6))))

ASSA_to_rgb(self) ==
    LET clean == ASSA_clean_value(self)
        off == IF Len(clean) = 6 THEN 0 ELSE 2
    IN  RGB_new(I(int16(SubSeq(clean, off + 5, off + 6))),
                I(int16(SubSeq(clean, off + 3, off + 4))),
                I(int16(SubSeq(clean, off + 1, off + 2))))

\* from_assa taking a missing alpha byte as alpha 0.
RGBA_from_assa_transparent(assa) ==
    LET alpha == ASSA_alpha(assa)
        F(rgb) ==
            IF alpha = None
            THEN RGBA_new(rgb["red"], rgb["green"], rgb["blue"], I(0))
            ELSE RGBA_new(rgb["red"], rgb["green"], rgb["blue"],
                          QSub(I(1), QDiv(alpha, I(255))))
    IN  Then(ASSA_to_rgb(assa), F)

RGBA_from_assa(assa) ==
    LET alpha == ASSA_alpha(assa)
        F(rgb) ==
            IF alpha = None
            THEN RGBA_new(rgb["red"], rgb["green"], rgb["blue"], I(1))
            ELSE RGBA_new(rgb["red"], rgb["green"], rgb["blue"],
                          QSub(I(1), QDiv(alpha, I(255))))
    IN  Then(ASSA_to_rgb(assa), F)

\* The targets every class converts to through RGB when it has no formula.
PivotTargets == {"to_hsv", "to_hsl", "to_cmyk", "to_hex", "to_assa"}

\* getattr(self, m)() for an RGB.
RGB_method(self, m) ==
    CASE m = "to_rgb" -> Ok(self)
      [] m = "to_hsv" -> RGB_to_hsv(self)
      [] m = "to_hsl" -> RGB_to_hsl(self)
      [] m = "to_cmyk" -> RGB_to_cmyk(self)
      [] m = "to_hex" -> RGB_to_hex(self)
      [] m = "to_rgba" -> RGB_to_rgba(self, I(1))
      [] m = "to_assa" -> RGB_to_assa(self)
      [] OTHER -> Raise("AttributeError")

\* self.to_rgb().<m>()
ViaRGB(o, m) == LET F(rgb) == RGB_method(rgb, m) IN Then(o, F)

\* self.to_rgb() of each class.
to_rgb(self) ==
    LET kind == self["kind"]
    IN  CASE kind = "RGB" -> Ok(self)
          [] kind = "RGBA" -> RGBA_to_rgb(self)
          [] kind = "HEX" -> HEX_to_rgb(self)
          [] kind = "HSV" -> HSV_to_rgb(self)
          [] kind = "HSL" -> HSL_to_rgb(self)
          [] kind = "CMYK" -> CMYK_to_rgb(self)
          [] kind = "ASSA" -> ASSA_to_rgb(self)
          [] kind = "webcolor" -> HEX_to_rgb(self["hex_value"])

\* to_rgb alone returns self.
Identity_rgb(kind) == "to_rgb"

\* The method of each class that returns self.
Identity(kind) ==
    CASE kind = "RGB" -> "to_rgb"
      [] kind = "RGBA" -> "to_rgba"
      [] kind = "HEX" -> "to_hex"
      [] kind = "HSV" -> "to_hsv"
      [] kind = "HSL" -> "to_hsl"
      [] kind = "CMYK" -> "to_cmyk"
      [] kind = "ASSA" -> "to_assa"
      [] kind = "webcolor" -> "to_webcolor"

\* No class converts through RGB.
Pivots_none(kind) == {}

\* The methods each class defines as self.to_rgb().<m>(); webcolor defines
\* them as self.hex_value.<m>(), which HEX defines so.
Pivots(kind) ==
    CASE kind = "RGB" -> {}
      [] kind = "RGBA" -> PivotTargets \ {"to_assa"}
      [] kind = "webcolor" -> PivotTargets \ {"to_hex"}
      [] OTHER -> PivotTargets \ {Identity(kind)}

\* self.to_rgb() as o, or self.to_rgb().<m>().
Piped(o, m) == IF m = "to_rgb" THEN o ELSE ViaRGB(o, m)

\* The method named m of each class, called without arguments.
Method(self, m) ==
    LET kind == self["kind"]
    IN  IF m = Identity(kind) THEN Ok(self)
        ELSE IF kind = "RGB" THEN RGB_method(self, m)
        ELSE IF m = "to_rgb" \/ m \in Pivots(kind) THEN Piped(to_rgb(self), m)
        ELSE IF kind = "RGBA" /\ m = "to_assa" THEN ASSA_from_rgba(self)
        ELSE IF kind = "HEX" /\ m = "to_webcolor" THEN HEX_to_webcolor(self)
        ELSE IF kind = "webcolor" /\ m = "to_hex" THEN Ok(self["hex_value"])
        ELSE Raise("AttributeError")

---------------------------------------------------------------------------
\* Canonical string form and mapping form

\* get_value_keys() of each class.
get_value_keys(cls) ==
    CASE cls = "RGB" -> <<"red", "green", "blue">>
      [] cls = "RGBA" -> <<"red", "green", "blue", "alpha">>
      [] cls = "HEX" -> <<"value">>
      [] cls = "HSV" -> <<"hue", "saturation", "value">>
      [] cls = "HSL" -> <<"hue", "saturation", "lightness">>
      [] cls = "CMYK" -> <<"cyan", "magenta", "yellow", "key">>
      [] cls = "ASSA" -> <<"value">>
      [] cls = "webcolor" -> <<"name">>

\* A dict() that leaves out the last value key.
Color_dict_short(self) ==
    LET keys == get_value_keys(self["kind"])
    IN  [k \in Range(SubSeq(keys, 1, Len(keys) - 1)) |-> self[k]]

Color_dict(self) ==
    [k \in Range(get_value_keys(self["kind"])) |-> self[k]]

Color_copy(self) == self

\* self.<m>() is "return self".
ReturnsSelf(self, m) == m = Identity(self["kind"])

\* self.<m>() returns the object an attribute of self holds: webcolor.to_hex
\* is "return self.hex_value".
ReturnsHeld(self, m) == self["kind"] = "webcolor" /\ m = "to_hex"

RECURSIVE Pow10(_)
Pow10(n) == IF n = 0 THEN 1 ELSE 10 * Pow10(n - 1)

\* The digits of r/d after the decimal point, for 0 <= r < d and a
\* terminating expansion.
RECURSIVE FracDigits(_, _)
FracDigits(r, d) ==
    IF r = 0 THEN <<>>
    ELSE <<Digits[((10 * r) \div d) + 1]>> \o FracDigits((10 * r) % d, d)

\* The floats whose repr is modelled: x >= 0 with at most MaxFrac
\* fractional digits.
ShortFloat(x) == x[1] >= 0 /\ Pow10(MaxFrac) % x[2] = 0

\* The least e with x * 10^e >= 1, for x > 0.
RECURSIVE Exp10(_)
Exp10(x) == IF QLe(I(1), x) THEN 0 ELSE 1 + Exp10(QMul(x, I(10)))

\* repr(x) of a float x: fixed notation from 1e-4 upward, and exponent
\* notation (mantissa, "e-", two-digit exponent) below.
float_repr(x) ==
    LET Fixed(y) ==
            LET f == QFloor(y)
                fd == FracDigits(y[1] - f * y[2], y[2])
            IN  <<int_repr(f), fd>>
    IN  IF x[1] = 0 \/ QLe(Q(1, 10000), x)
        THEN LET p == Fixed(x)
             IN  p[1] \o <<".">> \o (IF p[2] = <<>> THEN <<"0">> ELSE p[2])
        ELSE LET e == Exp10(x)
                 p == Fixed(QMul(x, I(Pow10(e))))
             IN  p[1] \o (IF p[2] = <<>> THEN <<>> ELSE <<".">> \o p[2])
                 \o <<"e", "-">>
                 \o (IF e < 10 THEN <<"0">> ELSE <<>>) \o int_repr(e)

RECURSIVE JoinArgs(_)
JoinArgs(parts) ==
    IF Len(parts) = 1 THEN parts[1]
    ELSE parts[1] \o <<",", " ">> \o JoinArgs(Tail(parts))

\* repr(self)
Color_repr(self) ==
    LET kind == self["kind"]
        Ints(ks) == [i \in DOMAIN ks |-> int_repr(self[ks[i]][1])]
        Floats(ks) == [i \in DOMAIN ks |-> float_repr(self[ks[i]])]
        Call(name, a) == name \o <<"(">> \o a \o <<")">>
    IN  CASE kind = "RGB" ->
                Call(<<"r", "g", "b">>, JoinArgs(Ints(<<"red", "green", "blue">>)))
          [] kind = "RGBA" ->
                Call(<<"r", "g", "b", "a">>,
                     JoinArgs(Ints(<<"red", "green", "blue">>) \o Floats(<<"alpha">>)))
          [] kind = "HEX" -> Call(<<"h", "e", "x">>, self["value"])
          [] kind = "HSV" ->
                Call(<<"h", "s", "v">>, JoinArgs(Floats(get_value_keys(kind))))
          [] kind = "HSL" ->
                Call(<<"h", "s", "l">>, JoinArgs(Floats(get_value_keys(kind))))
          [] kind = "CMYK" ->
                Call(<<"c", "m", "y", "k">>, JoinArgs(Floats(get_value_keys(kind))))
          [] kind = "ASSA" -> Call(<<"a", "s", "s", "a">>, ASSA_clean_value(self))
          [] kind = "webcolor" ->
                Call(<<"w", "e", "b", "c", "o", "l", "o", "r">>,
                     <<"'">> \o self["name"] \o <<"'">>)

\* The characters the pattern \s matches, of those the inputs use.
Space == {" "}

strip(s) == rstrip(lstrip(s, Space), Space)

RECURSIVE Split(_, _)
Split(s, sep) ==
    IF \A i \in DOMAIN s : s[i] # sep THEN <<s>>
    ELSE LET i == CHOOSE j \in DOMAIN s :
                      s[j] = sep /\ \A k \in 1..(j - 1) : s[k] # sep
         IN  <<SubSeq(s, 1, i - 1)>> \o Split(SubSeq(s, i + 1, Len(s)), sep)

AllIn(s, chars) == \A i \in DOMAIN s : s[i] \in chars

Unsigned(s) == IF s # <<>> /\ Head(s) \in {"+", "-"} THEN Tail(s) ELSE s

Sign(s) == IF s # <<>> /\ Head(s) = "-" THEN -1 ELSE 1

\* [+-]?\d+
MatchInt(s) == Unsigned(s) # <<>> /\ AllIn(Unsigned(s), Range(Digits))

\* [+-]?(?:\d+(?:\.\d+)?|\.\d+)
MatchFloat(s) ==
    LET parts == Split(Unsigned(s), ".")
    IN  /\ Len(parts) \in {1, 2}
        /\ \A i \in DOMAIN parts : AllIn(parts[i], Range(Digits))
        /\ parts[Len(parts)] # <<>>
        /\ Len(parts) = 1 => parts[1] # <<>>

\* int(s) and float(s) of a matched token.
IntOf(s) == I(Sign(s) * int10(Unsigned(s)))

FloatOf(s) ==
    LET parts == Split(Unsigned(s), ".")
        frac == IF Len(parts) = 2 THEN parts[2] ELSE <<>>
    IN  QMul(I(Sign(s)), QAdd(I(int10(parts[1])), Q(int10(frac), Pow10(Len(frac)))))

\* The arguments of \s*name\(\s*a1\s*,...,\s*an\s*\)\s*, each stripped, or
\* <<>> when value has no such form.
CallArgs(value, name) ==
    LET s == strip(value)
        open == name \o <<"(">>
    IN  IF startswith(s, open) /\ endswith(s, <<")">>) /\ Len(s) > Len(open)
        THEN LET parts == Split(SubSeq(s, Len(open) + 1, Len(s) - 1), ",")
             IN  [i \in DOMAIN parts |-> strip(parts[i])]
        ELSE <<>>

\* The matched groups when value has n arguments, the first ni integer
\* tokens and the rest float tokens; <<>> when the pattern does not match.
Groups(a, ni, n) ==
    IF Len(a) = n /\ (\A i \in 1..ni : MatchInt(a[i]))
       /\ (\A i \in (ni + 1)..n : MatchFloat(a[i]))
    THEN [i \in 1..n |-> IF i <= ni THEN IntOf(a[i]) ELSE FloatOf(a[i])]
    ELSE <<>>

NumArgs(value, name, ni, n) == Groups(CallArgs(value, name), ni, n)

\* The call New on the groups of a match; ValueError without a match.
Matched(match, New(_)) ==
    IF match = <<>> THEN Raise("ValueError") ELSE New(match)

\* The only argument of a call, <<>> when there is not exactly one.
OneArg(a) == IF Len(a) = 1 THEN a[1] ELSE <<>>

\* A raw value is [type, v]: "map" for a Mapping, "str" for a str, "seq" for
\* a tuple or list, "int" for an int.
Has(data, keys) == keys \subseteq DOMAIN data

\* parse_rgb taking each field under its long name or else its short one.
parse_rgb_merged(value) ==
    IF value.type = "map"
    THEN LET data == value.v
             Get(long, short) ==
                 IF long \in DOMAIN data THEN data[long] ELSE data[short]
         IN  IF \A p \in {<<"red", "r">>, <<"green", "g">>, <<"blue", "b">>} :
                    p[1] \in DOMAIN data \/ p[2] \in DOMAIN data
             THEN RGB_new(Get("red", "r"), Get("green", "g"), Get("blue", "b"))
             ELSE Raise("ValueError")
    ELSE LET match == NumArgs(value.v, <<"r", "g", "b">>, 3, 3)
         IN  IF match = <<>> THEN Raise("ValueError")
             ELSE RGB_new(match[1], match[2], match[3])

parse_rgb(value) ==
    IF value.type = "map"
    THEN LET data == value.v
         IN  IF Has(data, {"red", "green", "blue"})
             THEN RGB_new(data["red"], data["green"], data["blue"])
             ELSE IF Has(data, {"r", "g", "b"})
             THEN RGB_new(data["r"], data["g"], data["b"])
             ELSE Raise("ValueError")
    ELSE LET New(match) == RGB_new(match[1], match[2], match[3])
         IN  Matched(NumArgs(value.v, <<"r", "g", "b">>, 3, 3), New)

parse_rgba(value) ==
    IF value.type = "map"
    THEN LET data == value.v
         IN  IF Has(data, {"red", "green", "blue", "alpha"})
             THEN RGBA_new(data["red"], data["green"], data["blue"], data["alpha"])
             ELSE IF Has(data, {"r", "g", "b", "a"})
             THEN RGBA_new(data["r"], data["g"], data["b"], data["a"])
             ELSE Raise("ValueError")
    ELSE LET New(match) == RGBA_new(match[1], match[2], match[3], match[4])
         IN  Matched(NumArgs(value.v, <<"r", "g", "b", "a">>, 3, 4), New)

parse_hex(value) ==
    IF value.type = "map"
    THEN LET data == value.v
         IN  IF Has(data, {"value"}) THEN HEX_new(data["value"])
             ELSE IF Has(data, {"hex"}) THEN HEX_new(data["hex"])
             ELSE Raise("ValueError")
    ELSE LET New(v) ==
                 LET body == IF startswith(v, <<"#">>) THEN Tail(v) ELSE v
                 IN  IF Len(body) # 6 \/ ~AllIn(body, HexChars)
                     THEN Raise("ValueError")
                     ELSE HEX_new(<<"#">> \o body)
         IN  Matched(OneArg(CallArgs(value.v, <<"h", "e", "x">>)), New)

parse_hsv(value) ==
    IF value.type = "map"
    THEN LET data == value.v
         IN  IF Has(data, {"hue", "saturation", "value"})
             THEN HSV_new(data["hue"], data["saturation"], data["value"])
             ELSE IF Has(data, {"h", "s", "v"})
             THEN HSV_new(data["h"], data["s"], data["v"])
             ELSE Raise("ValueError")
    ELSE LET New(match) == HSV_new(match[1], match[2], match[3])
         IN  Matched(NumArgs(value.v, <<"h", "s", "v">>, 0, 3), New)

parse_hsl(value) ==
    IF value.type = "map"
    THEN LET data == value.v
         IN  IF Has(data, {"hue", "saturation", "lightness"})
             THEN HSL_new(data["hue"], data["saturation"], data["lightness"])
             ELSE IF Has(data, {"h", "s", "l"})
             THEN HSL_new(data["h"], data["s"], data["l"])
             ELSE Raise("ValueError")
    ELSE LET New(match) == HSL_new(match[1], match[2], match[3])
         IN  Matched(NumArgs(value.v, <<"h", "s", "l">>, 0, 3), New)

parse_cmyk(value) ==
    IF value.type = "map"
    THEN LET data == value.v
         IN  IF Has(data, {"cyan", "magenta", "yellow", "key"})
             THEN CMYK_new(data["cyan"], data["magenta"], data["yellow"], data["key"])
             ELSE IF Has(data, {"c", "m", "y", "k"})
             THEN CMYK_new(data["c"], data["m"], data["y"], data["k"])
             ELSE Raise("ValueError")
    ELSE LET New(match) == CMYK_new(match[1], match[2], match[3], match[4])
         IN  Matched(NumArgs(value.v, <<"c", "m", "y", "k">>, 0, 4), New)

parse_assa(value) ==
    IF value.type = "map"
    THEN LET data == value.v
         IN  IF Has(data, {"value"}) THEN ASSA_new(data["value"])
             ELSE IF Has(data, {"clean_value"}) THEN ASSA_new(data["clean_value"])
             ELSE Raise("ValueError")
    ELSE LET New(v) ==
                 IF Len(v) \notin {6, 8} \/ ~AllIn(v, HexChars)
                 THEN Raise("ValueError")
                 ELSE ASSA_new(v)
         IN  Matched(OneArg(CallArgs(value.v, <<"a", "s", "s", "a">>)), New)

parse_webcolor(value) ==
    IF value.type = "map"
    THEN LET data == value.v
         IN  IF Has(data, {"name"}) THEN webcolor_new(data["name"])
             ELSE Raise("ValueError")
    ELSE LET New(v) ==
                 LET quoted == Len(v) >= 2 /\ v[1] \in {"'", "\""}
                               /\ v[Len(v)] = v[1]
                     name == IF quoted THEN strip(SubSeq(v, 2, Len(v) - 1))
                             ELSE <<>>
                 IN  IF name = <<>>
                        \/ ~AllIn(name, Range(UpperLetters) \cup Range(LowerLetters))
                     THEN Raise("ValueError")
                     ELSE webcolor_new(name)
         IN  Matched(OneArg(CallArgs(value.v, <<"w", "e", "b", "c", "o", "l", "o", "r">>)),
                     New)

\* The parser registered for each class.
Parser(cls, value) ==
    CASE cls = "RGB" -> parse_rgb(value)
      [] cls = "RGBA" -> parse_rgba(value)
      [] cls = "HEX" -> parse_hex(value)
      [] cls = "HSV" -> parse_hsv(value)
      [] cls = "HSL" -> parse_hsl(value)
      [] cls = "CMYK" -> parse_cmyk(value)
      [] cls = "ASSA" -> parse_assa(value)
      [] cls = "webcolor" -> parse_webcolor(value)

\* The arguments of name\(\s*a1\s*,...,\s*an\s*\), each stripped, or <<>> when
\* s has no such form: the pattern is anchored at both ends.
PatternArgs(s, name) == IF s = strip(s) THEN CallArgs(s, name) ELSE <<>>

\* \d{1,3}
MatchChannel(s) == Len(s) \in 1..3 /\ AllIn(s, Range(Digits))

\* (?:0|1|0?\.\d+)
MatchAlpha(s) ==
    \/ s \in {<<"0">>, <<"1">>}
    \/ LET frac == IF startswith(s, <<"0">>) THEN Tail(s) ELSE s
       IN  /\ Len(frac) >= 2
           /\ Head(frac) = "."
           /\ AllIn(Tail(frac), Range(Digits))

\* #?[0-9A-Fa-f]{6}
MatchHex(s) ==
    LET body == IF startswith(s, <<"#">>) THEN Tail(s) ELSE s
    IN  Len(body) = 6 /\ AllIn(body, HexChars)

\* ['\"]?[A-Za-z]+['\"]?
MatchName(s) ==
    LET quotes == {"'", "\""}
        a == IF s # <<>> /\ Head(s) \in quotes THEN Tail(s) ELSE s
        b == IF a # <<>> /\ a[Len(a)] \in quotes THEN SubSeq(a, 1, Len(a) - 1)
             ELSE a
    IN  b # <<>> /\ AllIn(b, Range(UpperLetters) \cup Range(LowerLetters))

\* re.search(string_pattern, s) of the string schema registered for each
\* class.
string_pattern(cls, s) ==
    LET Args(name) == PatternArgs(s, name)
        Floats(name, n) ==
            Len(Args(name)) = n /\ \A i \in 1..n : MatchFloat(Args(name)[i])
    IN  CASE cls = "RGB" ->
               /\ Len(Args(<<"r", "g", "b">>)) = 3
               /\ \A i \in 1..3 : MatchChannel(Args(<<"r", "g", "b">>)[i])
          [] cls = "RGBA" ->
               /\ Len(Args(<<"r", "g", "b", "a">>)) = 4
               /\ \A i \in 1..3 : MatchChannel(Args(<<"r", "g", "b", "a">>)[i])
               /\ MatchAlpha(Args(<<"r", "g", "b", "a">>)[4])
          [] cls = "HEX" ->
               /\ Len(Args(<<"h", "e", "x">>)) = 1
               /\ MatchHex(Args(<<"h", "e", "x">>)[1])
          [] cls = "HSV" -> Floats(<<"h", "s", "v">>, 3)
          [] cls = "HSL" -> Floats(<<"h", "s", "l">>, 3)
          [] cls = "CMYK" -> Floats(<<"c", "m", "y", "k">>, 4)
          [] cls = "ASSA" ->
               /\ Len(Args(<<"a", "s", "s", "a">>)) = 1
               /\ Len(Args(<<"a", "s", "s", "a">>)[1]) \in {6, 8}
               /\ AllIn(Args(<<"a", "s", "s", "a">>)[1], HexChars)
          [] cls = "webcolor" ->
               /\ Len(Args(<<"w", "e", "b", "c", "o", "l", "o", "r">>)) = 1
               /\ MatchName(Args(<<"w", "e", "b", "c", "o", "l", "o", "r">>)[1])

\* string_examples of the string schema registered for each class.
string_examples(cls) ==
    CASE cls = "RGB" ->
          <<<<"r", "g", "b", "(", "2", "5", "5", ",", " ", "0", ",", " ", "0", ")">>,
            <<"r", "g", "b", "(", "0", ",", " ", "0", ",", " ", "0", ")">>>>
      [] cls = "RGBA" ->
          <<<<"r", "g", "b", "a", "(", "2", "5", "5", ",", " ", "0", ",", " ", "0", ",", " ", "1", ")">>,
            <<"r", "g", "b", "a", "(", "0", ",", " ", "1", "2", "8", ",", " ", "2", "5", "5", ",", " ", "0", ".", "5", ")">>>>
      [] cls = "HEX" ->
          <<<<"h", "e", "x", "(", "#", "f", "f", "f", "f", "f", "f", ")">>,
            <<"h", "e", "x", "(", "#", "0", "a", "1", "b", "2", "c", ")">>>>
      [] cls = "HSV" ->
          <<<<"h", "s", "v", "(", "1", "2", "0", ".", "0", ",", " ", "1", "0", "0", ".", "0", ",", " ", "1", "0", "0", ".", "0", ")">>>>
      [] cls = "HSL" ->
          <<<<"h", "s", "l", "(", "2", "4", "0", ".", "0", ",", " ", "1", "0", "0", ".", "0", ",", " ", "5", "0", ".", "0", ")">>>>
      [] cls = "CMYK" ->
          <<<<"c", "m", "y", "k", "(", "0", ",", " ", "1", "0", "0", ",", " ", "1", "0", "0", ",", " ", "0", ")">>,
            <<"c", "m", "y", "k", "(", "1", "0", ".", "5", ",", " ", "0", ",", " ", "2", "5", ",", " ", "5", ")">>>>
      [] cls = "ASSA" ->
          <<<<"a", "s", "s", "a", "(", "0", "0", "f", "f", "0", "0", ")">>,
            <<"a", "s", "s", "a", "(", "f", "f", "0", "0", "f", "f", "0", "0", ")">>>>
      [] cls = "webcolor" ->
          <<<<"w", "e", "b", "c", "o", "l", "o", "r", "(", "'", "r", "e", "d", "'", ")">>,
            <<"w", "e", "b", "c", "o", "l", "o", "r", "(", "\"", "a", "l", "i", "c", "e", "b", "l", "u", "e", "\"", ")">>>>

\* object_required of the object schema registered for each class.
object_required(cls) ==
    CASE cls = "RGB" -> {"red", "green", "blue"}
      [] cls = "RGBA" -> {"red", "green", "blue", "alpha"}
      [] cls = "HEX" -> {"value"}
      [] cls = "HSV" -> {"hue", "saturation", "value"}
      [] cls = "HSL" -> {"hue", "saturation", "lightness"}
      [] cls = "CMYK" -> {"cyan", "magenta", "yellow", "key"}
      [] cls = "ASSA" -> {"value"}
      [] cls = "webcolor" -> {"name"}

\* isinstance(v, cls) of a raw value; an instance is the raw value of type
\* "obj".
IsInstance(v, cls) == v.type = "obj" /\ v.v["kind"] = cls

\* _validator taking an instance of any class as it is.
validator_any_instance(cls, v) ==
    IF v.type = "obj" THEN Ok(v.v)
    ELSE IF v.type = "str" THEN Parser(cls, v)
    ELSE IF v.type = "map" THEN Parser(cls, v)
    ELSE Raise("ValueError")

\* _validator of _register_color(cls, parser, ...): the function the schema
\* of cls validates with.
validator(cls, v) ==
    IF IsInstance(v, cls) THEN Ok(v.v)
    ELSE IF v.type = "str" \/ v.type = "map" THEN Parser(cls, v)
    ELSE Raise("ValueError")

\* normalize_color whose ASSA prefix is '&H' alone.
normalize_color_upper_prefix(color) ==
    IF color.type = "seq" \/ (color.type = "str" /\ color.v = <<>>)
    THEN IF Len(color.v) = 3 THEN RGB_new(color.v[1], color.v[2], color.v[3])
         ELSE IF Len(color.v) = 4
         THEN RGBA_new(color.v[1], color.v[2], color.v[3], color.v[4])
         ELSE Raise("ColorValueError")
    ELSE IF color.type = "str"
    THEN IF startswith(color.v, <<"#">>) THEN HEX_new(color.v)
         ELSE IF startswith(color.v, <<"&", "H">>)
         THEN ASSA_from_value(color.v)
         ELSE webcolor_new(color.v)
    ELSE Raise("ColorValueError")

normalize_color(color) ==
    IF color.type = "seq" \/ (color.type = "str" /\ color.v = <<>>)
    THEN IF Len(color.v) = 3 THEN RGB_new(color.v[1], color.v[2], color.v[3])
         ELSE IF Len(color.v) = 4
         THEN RGBA_new(color.v[1], color.v[2], color.v[3], color.v[4])
         ELSE Raise("ColorValueError")
    ELSE IF color.type = "str"
    THEN IF startswith(color.v, <<"#">>) THEN HEX_new(color.v)
         ELSE IF startswith(color.v, <<"&", "h">>) \/ startswith(color.v, <<"&", "H">>)
         THEN ASSA_from_value(color.v)
         ELSE webcolor_new(color.v)
    ELSE Raise("ColorValueError")

---------------------------------------------------------------------------
\* Inputs

\* __eq__ of each class: objects of different classes are unequal.
Color_eq(a, b) ==
    /\ a["kind"] = b["kind"]
    /\ CASE a["kind"] = "HEX" -> str_lower(a["value"]) = str_lower(b["value"])
         [] a["kind"] = "webcolor" -> a["name"] = b["name"]
         [] OTHER -> \A k \in Range(get_value_keys(a["kind"])) : a[k] = b[k]

Kinds == {"RGB", "RGBA", "HEX", "HSV", "HSL", "CMYK", "ASSA", "webcolor"}

Methods ==
    {"to_rgb", "to_rgba", "to_hex", "to_hsv", "to_hsl", "to_cmyk", "to_assa",
     "to_webcolor"}

IsColor(x) == x["kind"] \in Kinds

ChannelInputs == {I(-1), Q(-1, 2), I(0), I(51), I(255), Q(511, 2), I(256)}

AlphaInputs == {Q(-1, 2), I(0), Q(1, 100000), Q(1, 2), I(1), Q(3, 2)}

HueInputs == {I(-1), I(0), Q(1, 100000), I(60), I(360), I(361)}

PercentInputs == {I(-1), I(0), I(100), I(101)}

KeyInputs == {I(-1), I(0), I(70), I(100), I(101)}

ValueInputs == {I(-1), I(0), I(30), I(100), I(101)}

LightnessInputs == {I(-1), I(0), I(50), I(100), I(101)}

CmykInputs == {I(-1), I(0), I(50), I(100), I(101)}

HexBodies ==
    { <<"a", "b", "c", "d", "e", "f">>, <<"A", "B", "C", "D", "E", "F">>,
      <<"0", "0", "F", "f", "f", "f">>, <<"f", "f", "0", "0", "0", "0">>,
      <<"1", "2", "3", "4", "5">>, <<"1", "2", "3", "4", "5", "6", "7">>,
      <<"g", "g", "g", "g", "g", "g">>, <<>> }

HexInputs ==
    {p \o b : p \in {<<>>, <<"#">>, <<"#", "#">>}, b \in HexBodies}

AssaBodies ==
    { <<"4", "0", "8", "0", "F", "F">>, <<"4", "0", "a", "0", "B", "f">>,
      <<"F", "F", "1", "0", "2", "0", "3", "0">>, <<"1", "2", "3", "4", "5">>,
      <<"1", "2", "3", "4", "5", "6", "7">>, <<"G", "G", "H", "H", "I", "I">>,
      <<"4", "0", "-", "8", "0", "-", "f", "f">>,
      <<"U+FB00", "0", "0", "0", "0">> }

AssaInputs ==
    {p \o b \o e : p \in {<<>>, <<"&", "H">>, <<"&", "h">>}, b \in AssaBodies,
                   e \in {<<>>, <<"&">>}}

NameInputs ==
    { <<"r", "e", "d">>, <<"R", "E", "D">>, <<"A", "q", "u", "a">>,
      <<"c", "y", "a", "n">>, <<"b", "l", "a", "c", "k">>,
      <<"w", "h", "i", "t", "e">>, <<"n", "o", "p", "e">>, <<>> }

ParseStrings ==
    { <<"r", "g", "b", "(", "2", "5", "5", ",", " ", "0", ",", " ", "0", ")">>,
      <<"r", "g", "b", "(", "1", ",", "2", ")">>,
      <<" ", "r", "g", "b", "(", " ", "0", " ", ",", "5", "1", ",", "2", "5", "5", " ", ")", " ">>,
      <<"r", "g", "b", "(", "2", "5", "6", ",", " ", "0", ",", " ", "0", ")">>,
      <<"r", "g", "b", "a", "(", "0", ",", " ", "0", ",", " ", "0", ",", " ", ".", "5", ")">>,
      <<"r", "g", "b", "a", "(", "0", ",", " ", "0", ",", " ", "0", ",", " ", "1", "e", "-", "0", "5", ")">>,
      <<"h", "e", "x", "(", "A", "B", "C", "D", "E", "F", ")">>,
      <<"h", "e", "x", "(", "#", "#", "a", "b", "c", "d", "e", "f", ")">>,
      <<"h", "s", "v", "(", "6", "0", ",", " ", "5", "0", ".", "5", ",", " ", "0", ")">>,
      <<"h", "s", "l", "(", "0", ",", "0", ",", "5", "0", ")">>,
      <<"c", "m", "y", "k", "(", "0", ",", " ", "0", ",", " ", "0", ",", " ", "1", "0", "0", ")">>,
      <<"a", "s", "s", "a", "(", "f", "f", "f", "f", "0", "0", ")">>,
      <<"a", "s", "s", "a", "(", "1", "2", "3", "4", "5", ")">>,
      <<"w", "e", "b", "c", "o", "l", "o", "r", "(", "'", "r", "e", "d", "'", ")">>,
      <<"w", "e", "b", "c", "o", "l", "o", "r", "(", "r", "e", "d", ")">>,
      <<"f", "o", "o">> }

\* The mappings given to the parsers (a sequence: the values differ in type).
ParseMaps ==
    LET maps ==
        << [red |-> I(0), green |-> I(51), blue |-> I(255)],
          [r |-> I(0), g |-> I(51), b |-> I(256)],
          [red |-> I(0), g |-> I(51), b |-> I(255)],
          [red |-> I(0), green |-> I(51), blue |-> I(255),
           r |-> I(255), g |-> I(255), b |-> I(255), a |-> I(1)],
          [c |-> I(0), m |-> I(0), yellow |-> I(0), key |-> I(100)],
          [red |-> I(0)],
          [red |-> I(0), green |-> I(51), blue |-> I(255), alpha |-> Q(1, 2)],
          [h |-> I(60), s |-> I(50), v |-> I(100), l |-> I(50)],
          [c |-> I(0), m |-> I(0), y |-> I(0), k |-> I(100)],
          [value |-> <<"#", "#", "a", "b", "c", "d", "e", "f">>],
          [hex |-> <<"A", "B", "C", "D", "E", "F">>],
          [clean_value |-> <<"F", "F", "F", "F", "0", "0">>],
          [name |-> <<"R", "E", "D">>],
          [name |-> <<"n", "o", "p", "e">>] >>
    IN  [i \in DOMAIN maps |-> [k \in DOMAIN maps[i] |-> maps[i][k]]]

\* The numeric sequences given to normalize_color.
NormalizeSeqs ==
    {<<r, g, b>> : r \in {Q(-1, 2), I(51)}, g \in {I(0), Q(511, 2)},
                   b \in {I(255), I(256)}}
        \cup {<<I(0), I(51), I(255), a>> : a \in {I(0), Q(1, 2), I(2)}}
        \cup {<<>>, <<I(255)>>, <<I(255), I(51)>>,
              <<I(255), I(51), I(0), Q(1, 2), I(100)>>}

\* The attribute names a program assigns to or deletes on an object: the
\* freeze flag, the first value field and a name that is no slot.
AttrNames(self) == {"_frozen", get_value_keys(self["kind"])[1], "other"}

AttrValues == {I(7)}

---------------------------------------------------------------------------
\* The program: objects are created, observed and converted.

\* No object has been made.
NoColor ==
    /\ cur = NoObj
    /\ orig = NoObj
    /\ src = NoObj
    /\ res = Ok(NoObj)
    /\ op = "init"
    /\ arg = <<>>
    /\ depth = 0
    /\ same = FALSE
    /\ held = FALSE

\* No thread has been started.
NoThreads ==
    /\ shared = NoObj
    /\ given = NoObj
    /\ tpc = <<>>
    /\ tcall = <<>>
    /\ tseen = <<>>
    /\ tret = <<>>

\* retry is not used.
NoRetry ==
    /\ attempts = 0
    /\ delay = 0
    /\ attempt = 0
    /\ rpc = "off"
    /\ log = <<>>
    /\ outcome = [err |-> "none", val |-> 0]

Init == NoColor /\ NoThreads /\ NoRetry

\* No statement has run yet.
AtStart == op = "init"

\* x = <producer>(...), the first statement of the program: the new object,
\* or none when the call raises.
Bind(o, name, a) ==
    /\ res' = o
    /\ cur' = o.val
    /\ orig' = o.val
    /\ src' = NoObj
    /\ op' = name
    /\ arg' = a
    /\ depth' = 0
    /\ same' = FALSE
    /\ held' = FALSE
    /\ UNCHANGED <<thread_vars, retry_vars>>

\* x is bound to an object.
CanCall == cur # NoObj

\* The result of a call on x: x stays bound to the same object; self tells
\* whether the call returned that object itself, and part whether it returned
\* an object that x holds in an attribute.
ReturnObject(o, name, a, self, part) ==
    /\ res' = o
    /\ op' = name
    /\ arg' = a
    /\ same' = self
    /\ held' = part
    /\ UNCHANGED <<cur, orig, src, depth, thread_vars, retry_vars>>

\* The result of a call on x that returns x itself or builds what it returns.
Return(o, name, a, self) == ReturnObject(o, name, a, self, FALSE)

\* The result of a call on x that builds what it returns.
Observe(o, name, a) == Return(o, name, a, FALSE)

NewRGB ==
    /\ AtStart
    /\ \E r \in ChannelInputs, g \in ChannelInputs, b \in ChannelInputs :
           Bind(RGB_new(r, g, b), "RGB", <<r, g, b>>)

NewRGBA ==
    /\ AtStart
    /\ \E r \in ChannelInputs, g \in {I(0), I(255)}, b \in {I(51), I(256)},
          a \in AlphaInputs :
           Bind(RGBA_new(r, g, b, a), "RGBA", <<r, g, b, a>>)

NewHEX == AtStart /\ \E s \in HexInputs : Bind(HEX_new(s), "HEX", s)

NewHSV ==
    /\ AtStart
    /\ \E h \in HueInputs, s \in PercentInputs, v \in ValueInputs :
           Bind(HSV_new(h, s, v), "HSV", <<h, s, v>>)

NewHSL ==
    /\ AtStart
    /\ \E h \in HueInputs, s \in PercentInputs, l \in LightnessInputs :
           Bind(HSL_new(h, s, l), "HSL", <<h, s, l>>)

NewCMYK ==
    /\ AtStart
    /\ \E c \in CmykInputs, m \in PercentInputs, y \in PercentInputs,
          k \in KeyInputs :
           Bind(CMYK_new(c, m, y, k), "CMYK", <<c, m, y, k>>)

NewASSA == AtStart /\ \E s \in AssaInputs : Bind(ASSA_new(s), "ASSA", s)

FromValue ==
    /\ AtStart
    /\ \E s \in AssaInputs : Bind(ASSA_from_value(s), "ASSA.from_value", s)

FromCleanValue ==
    /\ AtStart
    /\ \E s \in AssaInputs :
           Bind(ASSA_from_clean_value(s), "ASSA.from_clean_value", s)

NewWebcolor ==
    /\ AtStart
    /\ \E n \in NameInputs : Bind(webcolor_new(n), "webcolor", n)

FromHex ==
    /\ AtStart
    /\ \E s \in HexInputs : Bind(webcolor_from_hex(s), "webcolor.from_hex", s)

Raw(t, x) == [type |-> t, v |-> x]

\* The raw values of type t that are given to a parser or a validator, each
\* under a key, and the value under key x.
RawKeys(t) ==
    CASE t = "str" -> ParseStrings
      [] t = "map" -> DOMAIN ParseMaps
      [] t = "int" -> {123}
      [] t = "obj" -> {0}

RawInput(t, x) ==
    CASE t = "str" -> Raw("str", x)
      [] t = "map" -> Raw("map", ParseMaps[x])
      [] t = "int" -> Raw("int", x)
      [] t = "obj" -> Raw("obj", cur)

ParseValue(cls, value) == Bind(Parser(cls, value), "parse", <<cls, value>>)

Parse ==
    /\ AtStart
    /\ \E cls \in Kinds, t \in {"str", "map"} :
           \E x \in RawKeys(t) : ParseValue(cls, RawInput(t, x))

Normalize ==
    /\ AtStart
    /\ \/ \E x \in NormalizeSeqs :
             Bind(normalize_color(Raw("seq", x)), "normalize_color",
                  <<Raw("seq", x)>>)
       \/ \E x \in HexInputs \cup AssaInputs \cup NameInputs :
             Bind(normalize_color(Raw("str", x)), "normalize_color",
                  <<Raw("str", x)>>)
       \/ Bind(normalize_color(Raw("int", 123)), "normalize_color",
                  <<Raw("int", 123)>>)

\* x.<name> = value
SetAttr ==
    /\ IsColor(cur)
    /\ \E name \in AttrNames(cur), value \in AttrValues :
        LET o == Color_setattr(cur, name, value)
        IN  /\ cur' = IF o.err = "none" THEN o.val ELSE cur
            /\ res' = IF o.err = "none" THEN Ok(NoObj) ELSE o
            /\ op' = "setattr"
            /\ arg' = <<name, value>>
            /\ same' = FALSE
            /\ held' = FALSE
            /\ UNCHANGED <<orig, src, depth, thread_vars, retry_vars>>

\* del x.<name>
DelAttr ==
    /\ IsColor(cur)
    /\ \E name \in AttrNames(cur) :
        LET o == Color_delattr(cur, name)
        IN  /\ cur' = IF o.err = "none" THEN o.val ELSE cur
            /\ res' = IF o.err = "none" THEN Ok(NoObj) ELSE o
            /\ op' = "delattr"
            /\ arg' = name
            /\ same' = FALSE
            /\ held' = FALSE
            /\ UNCHANGED <<orig, src, depth, thread_vars, retry_vars>>

\* The alpha arguments given to ASSA.from_rgb.
ByteInputs == {None, I(-1), I(0), I(128), I(255), I(256)}

\* ASSA.from_rgb(x, alpha)
FromRgb ==
    /\ CanCall
    /\ cur["kind"] = "RGB"
    /\ \E a \in ByteInputs : Observe(ASSA_from_rgb(cur, a), "ASSA.from_rgb", a)

\* x.red, x.green, x.blue, x.alpha of an ASSA object
ReadChannels ==
    /\ CanCall
    /\ cur["kind"] = "ASSA"
    /\ Observe(Ok([kind |-> "channels", red |-> ASSA_red(cur),
                   green |-> ASSA_green(cur), blue |-> ASSA_blue(cur),
                   alpha |-> ASSA_alpha(cur)]), "channels", <<>>)

\* RGBA.from_assa(x)
FromAssa ==
    /\ CanCall
    /\ cur["kind"] = "ASSA"
    /\ Observe(RGBA_from_assa(cur), "RGBA.from_assa", <<>>)

\* x.to_rgba(alpha)
ToRgba ==
    /\ CanCall
    /\ cur["kind"] = "RGB"
    /\ \E a \in AlphaInputs : Observe(RGB_to_rgba(cur, a), "to_rgba", a)

\* The classes whose schema an instance is validated against.
ValidatorClasses == {"RGB", "RGBA", "webcolor"}

\* The schema of cls validates x, or validates a value that is no instance.
ValidateValue(cls, v) ==
    Return(validator(cls, v), "validate", <<cls, v>>, IsInstance(v, cls))

SchemaValidate ==
    \E t \in {"obj", "str", "map", "int"} :
        /\ IF t = "obj" THEN CanCall ELSE AtStart
        /\ \E cls \in IF t = "obj" THEN ValidatorClasses ELSE Kinds :
               \E x \in RawKeys(t) : ValidateValue(cls, RawInput(t, x))

\* The parser of cls is given an example of the string schema of cls.
ParseString(cls, value) ==
    Observe(Parser(cls, value), "parse_example", <<cls, value>>)

ParseExample ==
    /\ AtStart
    /\ \E cls \in Kinds :
           \E i \in DOMAIN string_examples(cls) :
               ParseString(cls, Raw("str", string_examples(cls)[i]))

\* x.to_<kind>()
Convert ==
    /\ CanCall
    /\ \E m \in Methods :
           ReturnObject(Method(cur, m), "convert", m, ReturnsSelf(cur, m),
                        ReturnsHeld(cur, m))

\* The calls whose result the program may go on with.
Converters == {"convert", "ASSA.from_rgb"}

\* x = x.to_<kind>(): the program goes on with the converted object.
Rebind ==
    /\ op \in Converters
    /\ res.err = "none"
    /\ res.val # cur
    /\ depth < MaxChain
    /\ cur' = res.val
    /\ orig' = res.val
    /\ src' = cur
    /\ depth' = depth + 1
    /\ op' = "rebind"
    /\ UNCHANGED <<res, arg, same, held, thread_vars, retry_vars>>

FloatKeys(cls) ==
    CASE cls = "RGBA" -> {"alpha"}
      [] cls \in {"HSV", "HSL", "CMYK"} -> Range(get_value_keys(cls))
      [] OTHER -> {}

\* The objects whose repr is modelled.
ReprDefined(self) == \A k \in FloatKeys(self["kind"]) : ShortFloat(self[k])

CallRepr ==
    /\ CanCall
    /\ ReprDefined(cur)
    /\ Observe(Ok(Color_repr(cur)), "repr", <<>>)

CallDict == CanCall /\ Observe(Ok(Color_dict(cur)), "dict", <<>>)

CallCopy == CanCall /\ Return(Ok(Color_copy(cur)), "copy", <<>>, TRUE)

\* parse_<kind>(repr(x))
ReprRoundTrip ==
    /\ CanCall
    /\ ReprDefined(cur)
    /\ Observe(Parser(cur["kind"], [type |-> "str", v |-> Color_repr(cur)]),
               "parse_repr", <<>>)

\* parse_<kind>(x.dict())
DictRoundTrip ==
    /\ CanCall
    /\ Observe(Parser(cur["kind"], [type |-> "map", v |-> Color_dict(cur)]),
               "parse_dict", <<>>)

---------------------------------------------------------------------------
\* Threads that call one shared instance. A thread switch can fall between
\* any two attribute reads of a call, so a call is a sequence of steps: one
\* for each attribute of the instance it reads, and one that computes and
\* returns.

\* Most threads that run at once.
MaxThreads == 2

Threads == 1..MaxThreads

\* The instances handed to the threads.
SharedInputs ==
    { RGB_new(I(0), I(51), I(255)).val,
      RGBA_new(I(255), I(0), I(51), Q(1, 2)).val,
      HSL_new(I(60), I(100), I(50)).val,
      webcolor_new(<<"r", "e", "d">>).val }

\* The calls a thread makes: conversions, dict(), copy(), repr(), ==, and an
\* attribute assignment.
ThreadCalls == {"to_rgb", "to_hex", "to_hsv", "dict", "copy", "repr", "eq", "setattr"}

\* The attributes of an instance that its methods read, in slot order.
Fields(cls) ==
    IF cls = "webcolor" THEN <<"name", "hex_value">> ELSE get_value_keys(cls)

\* The instance as a call saw it: each attribute as the call read it.
Snapshot(self, seen) ==
    [k \in DOMAIN self |->
        IF \E i \in DOMAIN seen : Fields(self["kind"])[i] = k
        THEN seen[CHOOSE i \in DOMAIN seen : Fields(self["kind"])[i] = k]
        ELSE self[k]]

\* self.<first attribute> = 7
SetFirst(self) == Color_setattr(self, Fields(self["kind"])[1], I(7))

\* What call c returns or raises on an instance with the attributes self,
\* other being an instance equal to it.
Call(self, other, c) ==
    CASE c = "dict" -> Ok(Color_dict(self))
      [] c = "copy" -> Ok(Color_copy(self))
      [] c = "repr" -> Ok(Color_repr(self))
      [] c = "eq" -> Ok(Color_eq(self, other))
      [] c = "setattr" -> SetFirst(self)
      [] OTHER -> Method(self, c)

\* The instance after call c: an attribute assignment that does not raise
\* binds the attribute, and no other call assigns.
Effect(self, c) ==
    IF c = "setattr" /\ SetFirst(self).err = "none"
    THEN SetFirst(self).val
    ELSE self

ThreadInit ==
    /\ NoColor
    /\ NoRetry
    /\ shared \in SharedInputs
    /\ given = shared
    /\ tpc = [t \in Threads |-> "idle"]
    /\ tcall = [t \in Threads |-> "none"]
    /\ tseen = [t \in Threads |-> <<>>]
    /\ tret = [t \in Threads |-> Ok(NoObj)]

\* Thread t starts a call on the shared instance.
Begin(t) ==
    /\ tpc[t] = "idle"
    /\ \E c \in ThreadCalls : tcall' = [tcall EXCEPT ![t] = c]
    /\ tpc' = [tpc EXCEPT ![t] = "run"]
    /\ UNCHANGED <<shared, given, tseen, tret, color_vars, retry_vars>>

\* Thread t's call reads the next attribute of the shared instance.
Read(t) ==
    /\ tpc[t] = "run"
    /\ Len(tseen[t]) < Len(Fields(shared["kind"]))
    /\ tseen' = [tseen EXCEPT ![t] =
                    Append(@, shared[Fields(shared["kind"])[Len(@) + 1]])]
    /\ UNCHANGED <<shared, given, tpc, tcall, tret, color_vars, retry_vars>>

\* Thread t's call has read every attribute, and returns or raises.
Finish(t) ==
    /\ tpc[t] = "run"
    /\ Len(tseen[t]) = Len(Fields(shared["kind"]))
    /\ tret' = [tret EXCEPT ![t] = Call(Snapshot(shared, tseen[t]), given, tcall[t])]
    /\ shared' = Effect(shared, tcall[t])
    /\ tpc' = [tpc EXCEPT ![t] = "done"]
    /\ UNCHANGED <<given, tcall, tseen, color_vars, retry_vars>>

ThreadNext ==
    \/ \E t \in Threads : Begin(t)
    \/ \E t \in Threads : Read(t)
    \/ \E t \in Threads : Finish(t)

ThreadSpec == ThreadInit /\ [][ThreadNext]_vars

---------------------------------------------------------------------------
\* A program that decorates a function with retry(attempts, delay) and calls
\* it once. The k-th call of the function returns the value k or raises an
\* exception that carries k.

\* Largest attempts given to retry.
MaxAttempts == 3

AttemptInputs == -1..MaxAttempts

\* The delays given to retry, in seconds.
DelayInputs == {-1, 0, 2}

\* What a call of the wrapped function does: it returns ("none") or raises
\* an exception of one of these classes.
FuncOutcomes == {"none", "ValueError", "OSError", "KeyboardInterrupt"}

\* issubclass(e, Exception): KeyboardInterrupt derives from BaseException
\* alone.
IsException(e) == e \in {"ValueError", "OSError"}

\* An except clause that catches whatever is raised.
Catches_all(e) == TRUE

\* "except Exception" catches e.
Catches(e) == IsException(e)

\* time.sleep(secs) raises ValueError when secs is negative.
time_sleep(secs) == IF secs < 0 THEN Raise("ValueError") ELSE Ok(secs)

CallEvent(e) == [ev |-> "call", err |-> e, secs |-> 0]

SleepEvent(secs) == [ev |-> "sleep", err |-> "none", secs |-> secs]

\* The number of calls of the wrapped function so far.
Calls == Cardinality({i \in DOMAIN log : log[i].ev = "call"})

\* The number of completed calls of time.sleep so far.
Sleeps == Cardinality({i \in DOMAIN log : log[i].ev = "sleep"})

RetryInit ==
    /\ NoColor
    /\ NoThreads
    /\ attempts \in AttemptInputs
    /\ delay \in DelayInputs
    /\ attempt = 0
    /\ rpc = "retry"
    /\ log = <<>>
    /\ outcome = [err |-> "none", val |-> 0]

\* retry(attempts, delay)(func)(): the decorator is made, applied, and the
\* wrapper is called, which enters its loop with attempt = 0.
retry ==
    /\ rpc = "retry"
    /\ IF attempts < 1
       THEN /\ outcome' = [err |-> "ValueError", val |-> 0]
            /\ rpc' = "done"
       ELSE /\ rpc' = "try"
            /\ UNCHANGED outcome
    /\ UNCHANGED <<attempts, delay, attempt, log, color_vars, thread_vars>>

\* try: return func(*args, **kwargs), in the loop while attempt is in
\* range(attempts), and after the loop outside any try.
wrapper_try ==
    /\ rpc = "try"
    /\ \E e \in FuncOutcomes :
           /\ log' = Append(log, CallEvent(e))
           /\ IF e = "none"
              THEN /\ outcome' = [err |-> "none", val |-> Calls + 1]
                   /\ rpc' = "done"
              ELSE IF attempt < attempts /\ Catches(e)
              THEN /\ outcome' = [err |-> e, val |-> Calls + 1]
                   /\ rpc' = "except"
              ELSE /\ outcome' = [err |-> e, val |-> Calls + 1]
                   /\ rpc' = "done"
    /\ UNCHANGED <<attempts, delay, attempt, color_vars, thread_vars>>

\* except Exception: sleep and go on with the next attempt, or re-raise.
wrapper_except ==
    /\ rpc = "except"
    /\ IF attempt < attempts - 1
       THEN IF time_sleep(delay).err = "none"
            THEN /\ log' = Append(log, SleepEvent(delay))
                 /\ attempt' = attempt + 1
                 /\ rpc' = "try"
                 /\ outcome' = [err |-> "none", val |-> 0]
            ELSE /\ outcome' = [err |-> time_sleep(delay).err, val |-> 0]
                 /\ rpc' = "done"
                 /\ UNCHANGED <<log, attempt>>
       ELSE /\ rpc' = "done"
            /\ UNCHANGED <<log, attempt, outcome>>
    /\ UNCHANGED <<attempts, delay, color_vars, thread_vars>>

RetryNext == retry \/ wrapper_try \/ wrapper_except

RetrySpec == RetryInit /\ [][RetryNext]_vars

---------------------------------------------------------------------------

Next ==
    \/ NewRGB \/ NewRGBA \/ NewHEX \/ NewHSV \/ NewHSL \/ NewCMYK \/ NewASSA
    \/ FromValue \/ FromCleanValue \/ NewWebcolor \/ FromHex
    \/ Parse \/ Normalize
    \/ SetAttr \/ DelAttr \/ Convert \/ Rebind
    \/ FromRgb \/ ReadChannels \/ FromAssa \/ ToRgba \/ SchemaValidate
    \/ ParseExample
    \/ CallRepr \/ CallDict \/ CallCopy \/ ReprRoundTrip \/ DictRoundTrip

Spec == Init /\ [][Next]_vars

---------------------------------------------------------------------------
\* Properties

\* self.validate() of each class.
Validate(self) ==
    LET kind == self["kind"]
    IN  CASE kind = "RGB" -> RGB_validate(self)
          [] kind = "RGBA" -> RGBA_validate(self)
          [] kind = "HEX" -> HEX_validate(self)
          [] kind = "HSV" -> HSV_validate(self)
          [] kind = "HSL" -> HSL_validate(self)
          [] kind = "CMYK" -> CMYK_validate(self)
          [] kind = "ASSA" -> ASSA_validate(self)
          [] kind = "webcolor" -> webcolor_validate(self)

\* A frozen object of one of the eight classes that passes its validate().
Valid(x) == IsColor(x) /\ IsFrozen(x) /\ Validate(x).err = "none"

\* The class a to_<kind> method is declared to return.
TargetKind(m) ==
    CASE m = "to_rgb" -> "RGB"
      [] m = "to_rgba" -> "RGBA"
      [] m = "to_hex" -> "HEX"
      [] m = "to_hsv" -> "HSV"
      [] m = "to_hsl" -> "HSL"
      [] m = "to_cmyk" -> "CMYK"
      [] m = "to_assa" -> "ASSA"
      [] m = "to_webcolor" -> "webcolor"

\* C1: once a constructor has returned an object, every attribute assignment
\* and every attribute deletion on it raises, and the object keeps the fields
\* it was constructed with, whatever calls (assignments, deletions,
\* conversions, dict(), copy(), repr()) have been made on it in between.
C1_Immutable ==
    IsColor(cur) =>
        /\ cur = orig
        /\ IsFrozen(cur)
        /\ op \in {"setattr", "delattr"} => res.err = "AttributeError"

\* An assignment to the value field of an ASSA object obtained by a
\* conversion was attempted and raised.
C1_Witness ==
    /\ op = "setattr"
    /\ depth = 1
    /\ cur["kind"] = "ASSA"
    /\ arg[1] = "value"
    /\ res.err = "AttributeError"
    /\ cur = orig
\* The closed range [0, hi] of each constructor argument, in order.
FieldMax(cls) ==
    CASE cls = "RGB" -> <<255, 255, 255>>
      [] cls = "RGBA" -> <<255, 255, 255, 1>>
      [] cls = "HSV" -> <<360, 100, 100>>
      [] cls = "HSL" -> <<360, 100, 100>>
      [] cls = "CMYK" -> <<100, 100, 100, 100>>

AllInRange(cls, a) == \A i \in DOMAIN a : InRange(a[i], FieldMax(cls)[i])

\* C2: a numeric constructor returns an object if and only if every argument
\* lies in its closed range; otherwise it raises ColorValueError and binds
\* no object.
C2_RangeIff ==
    op \in {"RGB", "RGBA", "HSV", "HSL", "CMYK"} =>
        IF AllInRange(op, arg)
        THEN res.err = "none" /\ res.val["kind"] = op
        ELSE res.err = "ColorValueError" /\ cur = NoObj

\* '#' followed by exactly six lowercase hexadecimal digits.
CanonicalHex(v) ==
    /\ Len(v) = 7
    /\ v[1] = "#"
    /\ \A i \in 2..7 : v[i] \in Range(HexLower)

\* Six hexadecimal digits in any letter case, with or without a leading '#'.
SixDigits(v) ==
    LET body == IF startswith(v, <<"#">>) THEN Tail(v) ELSE v
    IN  Len(body) = 6 /\ \A i \in DOMAIN body : body[i] \in HexChars

\* The object the last call returned; repr() and dict() return no object.
Returned == IF op \in {"repr", "dict"} THEN NoObj ELSE res.val

\* C3: every HEX object, whether bound or returned by a call, holds '#' and
\* six lowercase hexadecimal digits, and HEX(s) returns an object exactly
\* for the strings of six hexadecimal digits with or without one leading
\* '#', raising ColorValueError for every other string.
C3_HexCanonical ==
    /\ cur["kind"] = "HEX" => CanonicalHex(cur["value"])
    /\ Returned["kind"] = "HEX" => CanonicalHex(Returned["value"])
    /\ op = "HEX" =>
          IF SixDigits(arg) THEN res.err = "none"
          ELSE res.err = "ColorValueError"

\* The conversions every class declares.
BaseMethods == {"to_rgb", "to_hex", "to_hsv", "to_hsl", "to_cmyk", "to_assa"}

\* The call returned a valid object of the class the method is named after.
Converted(m) ==
    res.err = "none" /\ res.val["kind"] = TargetKind(m) /\ Valid(res.val)

\* The table holds a name for the hexadecimal value v.
NamedHex(v) == \E i \in DOMAIN LowerHex : LowerHex[i] = str_lower(v)

C5_ReprRoundTrip ==
    op = "parse_repr" => res.err = "none" /\ Color_eq(res.val, cur)

\* C6: parsing the mapping x.dict() with the parser of x's class returns an
\* object equal to x.
C6_DictRoundTrip ==
    op = "parse_dict" => res.err = "none" /\ Color_eq(res.val, cur)

\* The mapping of an RGBA object with a fractional alpha was parsed back.
C6_Witness ==
    /\ op = "parse_dict"
    /\ cur["kind"] = "RGBA"
    /\ cur["alpha"] = Q(1, 2)
    /\ res.err = "none"
    /\ Color_eq(res.val, cur)

\* The calls that build an object from raw input.
Constructors ==
    {"RGB", "RGBA", "HEX", "HSV", "HSL", "CMYK", "ASSA", "ASSA.from_value",
     "ASSA.from_clean_value", "webcolor", "webcolor.from_hex"}

\* C7: a constructor, a parser or normalize_color that rejects its input
\* raises ColorValueError and no other exception.
C7_SingleErrorKind ==
    op \in Constructors \cup {"parse", "normalize_color"} =>
        res.err \in {"none", "ColorValueError"}

\* C8: RGB(...), RGBA(...) and normalize_color(<sequence>) raise
\* ColorValueError whenever one of the three channel values given lies
\* outside [0, 255], integral or not.
C8_NoSilentCoercion ==
    LET OutOfRange(a) == \E i \in 1..3 : ~InRange(a[i], 255)
    IN  /\ (op \in {"RGB", "RGBA"} /\ OutOfRange(arg)) =>
              res.err = "ColorValueError"
        /\ (op = "normalize_color" /\ arg[1].type = "seq" /\ Len(arg[1].v) \in {3, 4}
              /\ OutOfRange(arg[1].v)) => res.err = "ColorValueError"

\* The hexadecimal digits of s, in order.
HexDigitsOf(s) == KeepChars(s, HexChars)

\* C9: ASSA(s), ASSA.from_value(s) and ASSA.from_clean_value(s) return an
\* object exactly when 6 or 8 hexadecimal digits remain of s, which is
\* exactly when ASSA.is_valid_format(s) holds; the object's clean_value is
\* those digits in lowercase and its value '&H' + clean_value + '&';
\* otherwise the call raises ColorValueError.
C9_AssaConstruction ==
    op \in {"ASSA", "ASSA.from_value", "ASSA.from_clean_value"} =>
        LET digits == HexDigitsOf(arg)
        IN  /\ ASSA_is_valid_format(arg) <=> Len(digits) \in {6, 8}
            /\ IF Len(digits) \in {6, 8}
               THEN /\ res.err = "none"
                    /\ ASSA_clean_value(res.val) = str_lower(digits)
                    /\ res.val["value"] =
                          <<"&", "H">> \o str_lower(digits) \o <<"&">>
               ELSE res.err = "ColorValueError"

\* C10: RGB.to_hex() returns '#' and the two-digit lowercase hexadecimal of
\* red, green and blue; converting that HEX object back returns the RGB
\* object it came from; and converting the RGB object of a HEX object back
\* returns a HEX object equal to it.
C10_HexRoundTrip ==
    /\ (op = "convert" /\ arg = "to_hex" /\ cur["kind"] = "RGB") =>
          /\ res.err = "none"
          /\ res.val["value"] =
                <<"#">> \o fmt02x(cur["red"][1]) \o fmt02x(cur["green"][1])
                        \o fmt02x(cur["blue"][1])
    /\ (op = "convert" /\ arg = "to_rgb" /\ cur["kind"] = "HEX"
          /\ src["kind"] = "RGB") =>
          res.err = "none" /\ Color_eq(res.val, src)
    /\ (op = "convert" /\ arg = "to_hex" /\ cur["kind"] = "RGB"
          /\ src["kind"] = "HEX") =>
          res.err = "none" /\ Color_eq(res.val, src)

\* Two lowercase hexadecimal digits of a byte.
Hex2(n) == <<HexLower[(n \div 16) + 1], HexLower[(n % 16) + 1]>>

\* The byte written by the digits i and i + 1 of s.
ByteAt(s, i) == I(16 * (IndexOf(HexLower, s[i]) - 1)
                  + IndexOf(HexLower, s[i + 1]) - 1)

\* C11: ASSA.from_rgb(x) holds the six lowercase digits of blue, green, red
\* of x; ASSA.from_rgb(x, alpha=a) for a byte a holds the digits of a before
\* them and its alpha is a; the RGB object of either, and of x.to_assa(),
\* equals x; and an ASSA object of 8 digits reads alpha, blue, green, red
\* from its four bytes in this order, one of 6 digits blue, green, red with
\* no alpha, its to_rgb() being RGB(red, green, blue).
C11_AssaByteOrder ==
    /\ (op = "ASSA.from_rgb" /\ (arg = None \/ InRange(arg, 255))) =>
          LET bgr == Hex2(cur["blue"][1]) \o Hex2(cur["green"][1])
                         \o Hex2(cur["red"][1])
          IN  /\ res.err = "none"
              /\ res.val["kind"] = "ASSA"
              /\ ASSA_alpha(res.val) = arg
              /\ ASSA_clean_value(res.val) =
                    IF arg = None THEN bgr ELSE Hex2(arg[1]) \o bgr
    /\ (op = "convert" /\ arg = "to_rgb" /\ cur["kind"] = "ASSA"
          /\ src["kind"] = "RGB") =>
          res.err = "none" /\ Color_eq(res.val, src)
    /\ (op = "channels" /\ cur["kind"] = "ASSA") =>
          LET clean == ASSA_clean_value(cur)
              off == Len(clean) - 6
              c == res.val
          IN  /\ c["alpha"] = IF off = 0 THEN None ELSE ByteAt(clean, 1)
              /\ c["blue"] = ByteAt(clean, off + 1)
              /\ c["green"] = ByteAt(clean, off + 3)
              /\ c["red"] = ByteAt(clean, off + 5)
              /\ ASSA_to_rgb(cur) = RGB_new(c["red"], c["green"], c["blue"])

\* x = ASSA.from_rgb(RGB(51, 0, 255), alpha=128) was converted back.
C11_Witness ==
    /\ op = "convert"
    /\ arg = "to_rgb"
    /\ src = RGB_new(I(51), I(0), I(255)).val
    /\ cur["kind"] = "ASSA"
    /\ ASSA_alpha(cur) = I(128)
    /\ res.err = "none"
    /\ Color_eq(res.val, src)

\* b is the integer nearest to x.
Nearest(b, x) == b[2] = 1 /\ QLe(QAbs(QSub(b, x)), Q(1, 2))

\* C12: x.to_rgba(a) for a in [0, 1] holds the channels of x and alpha a;
\* the alpha byte of its ASSA object is the integer nearest to (1 - a) * 255,
\* 0 for a = 1 and 255 for a = 0; and RGBA.from_assa of that ASSA object
\* holds the same red, green, blue, and alpha 1 - byte / 255, which is
\* within 1/255 of a.
C12_AlphaRoundTrip ==
    /\ (op = "to_rgba" /\ InRange(arg, 1)) =>
          /\ res.err = "none"
          /\ res.val["kind"] = "RGBA"
          /\ res.val["alpha"] = arg
          /\ \A k \in {"red", "green", "blue"} : res.val[k] = cur[k]
    /\ (op = "RGBA.from_assa" /\ src["kind"] = "RGBA") =>
          LET a == src["alpha"]
              byte == ASSA_alpha(cur)
          IN  /\ byte # None
              /\ Nearest(byte, QMul(QSub(I(1), a), I(255)))
              /\ a = I(1) => byte = I(0)
              /\ a = I(0) => byte = I(255)
              /\ res.err = "none"
              /\ res.val["kind"] = "RGBA"
              /\ \A k \in {"red", "green", "blue"} : res.val[k] = src[k]
              /\ res.val["alpha"] = QSub(I(1), QDiv(byte, I(255)))
              /\ QLe(QAbs(QSub(res.val["alpha"], a)), Q(1, 255))

\* RGBA(0, 0, 51, 0.5) went to ASSA and back, its alpha now 127/255.
C12_Witness ==
    /\ op = "RGBA.from_assa"
    /\ src = RGBA_new(I(0), I(0), I(51), Q(1, 2)).val
    /\ ASSA_alpha(cur) = I(128)
    /\ res.err = "none"
    /\ res.val["alpha"] = Q(127, 255)

\* The channels of the RGB objects a and b differ by at most 1 each.
Near(a, b) ==
    \A k \in {"red", "green", "blue"} : QLe(QAbs(QSub(a[k], b[k])), I(1))

\* C13: the RGB object of x.to_hsv(), of x.to_hsl() and of x.to_cmyk(), for
\* an RGB object x, has each channel within 1 of the channel of x.
C13_LossyRoundTrip ==
    (op = "convert" /\ arg = "to_rgb" /\ src["kind"] = "RGB"
        /\ cur["kind"] \in {"HSV", "HSL", "CMYK"}) =>
        res.err = "none" /\ res.val["kind"] = "RGB" /\ Near(res.val, src)

\* RGB(51, 51, 51), whose key is 80, went to CMYK and back.
C13_Witness ==
    /\ op = "convert"
    /\ arg = "to_rgb"
    /\ src = RGB_new(I(51), I(51), I(51)).val
    /\ cur["kind"] = "CMYK"
    /\ cur["key"] = I(80)
    /\ res.err = "none"
    /\ Near(res.val, src)

\* Every element of the numeric sequence v lies in its field's range: 0..255
\* for the first three and 0..1 for the fourth.
SeqInRange(v) ==
    \A i \in DOMAIN v : InRange(v[i], IF i = 4 THEN 1 ELSE 255)

\* C14: normalize_color of a sequence of numbers returns what RGB returns
\* for its 3 elements, what RGBA returns for its 4 elements, and raises
\* ColorValueError for any other length and for an element out of range.
C14_SequenceDispatch ==
    (op = "normalize_color" /\ arg[1].type = "seq") =>
        LET v == arg[1].v
        IN  IF Len(v) \notin {3, 4} \/ ~SeqInRange(v)
            THEN res.err = "ColorValueError"
            ELSE /\ res.err = "none"
                 /\ Len(v) = 3 => res = RGB_new(v[1], v[2], v[3])
                 /\ Len(v) = 4 => res = RGBA_new(v[1], v[2], v[3], v[4])

\* C15: normalize_color of a string returns what HEX returns when the string
\* starts with '#', otherwise what ASSA returns when it starts with '&h' or
\* '&H', otherwise the webcolor of that name, raising ColorValueError for a
\* name the table lacks; an input that is no sequence and no string raises
\* ColorValueError; and an object returned is an RGB, RGBA, HEX, ASSA or
\* webcolor.
C15_StringDispatch ==
    op = "normalize_color" =>
        /\ arg[1].type = "str" =>
              IF startswith(arg[1].v, <<"#">>) THEN res = HEX_new(arg[1].v)
              ELSE IF startswith(arg[1].v, <<"&", "h">>)
                      \/ startswith(arg[1].v, <<"&", "H">>)
              THEN res = ASSA_new(arg[1].v)
              ELSE IF InColors(str_lower(arg[1].v))
              THEN /\ res.err = "none"
                   /\ res.val["kind"] = "webcolor"
                   /\ res.val["name"] = str_lower(arg[1].v)
              ELSE res.err = "ColorValueError"
        /\ arg[1].type \notin {"str", "seq"} => res.err = "ColorValueError"
        /\ res.err = "none" =>
              res.val["kind"] \in {"RGB", "RGBA", "HEX", "ASSA", "webcolor"}

\* normalize_color('&h4080FF') returned an ASSA object.
C15_Witness ==
    /\ op = "normalize_color"
    /\ arg = <<Raw("str", <<"&", "h", "4", "0", "8", "0", "F", "F">>)>>
    /\ res.err = "none"
    /\ cur["kind"] = "ASSA"
    /\ ASSA_clean_value(cur) = <<"4", "0", "8", "0", "f", "f">>

\* The short field names of each numeric class, in the order of the long.
ShortKeys(cls) ==
    CASE cls = "RGB" -> <<"r", "g", "b">>
      [] cls = "RGBA" -> <<"r", "g", "b", "a">>
      [] cls = "HSV" -> <<"h", "s", "v">>
      [] cls = "HSL" -> <<"h", "s", "l">>
      [] cls = "CMYK" -> <<"c", "m", "y", "k">>

\* cls(*a)
New(cls, a) ==
    CASE cls = "RGB" -> RGB_new(a[1], a[2], a[3])
      [] cls = "RGBA" -> RGBA_new(a[1], a[2], a[3], a[4])
      [] cls = "HSV" -> HSV_new(a[1], a[2], a[3])
      [] cls = "HSL" -> HSL_new(a[1], a[2], a[3])
      [] cls = "CMYK" -> CMYK_new(a[1], a[2], a[3], a[4])

\* C16: the parser of a numeric class, given a mapping, returns what the
\* constructor returns for the values under the long names when the mapping
\* holds all of them, otherwise for the values under the short names when it
\* holds all of those, and raises when it holds neither set in full.
C16_OneNameSet ==
    (op = "parse" /\ arg[2].type = "map"
        /\ arg[1] \in {"RGB", "RGBA", "HSV", "HSL", "CMYK"}) =>
        LET data == arg[2].v
            long == get_value_keys(arg[1])
            short == ShortKeys(arg[1])
        IN  IF Range(long) \subseteq DOMAIN data
            THEN res = New(arg[1], [i \in DOMAIN long |-> data[long[i]]])
            ELSE IF Range(short) \subseteq DOMAIN data
            THEN res = New(arg[1], [i \in DOMAIN short |-> data[short[i]]])
            ELSE res.err # "none"

\* parse_rgb({'red': 0, 'g': 51, 'b': 255}) raised.
C16_Witness ==
    /\ op = "parse"
    /\ arg[1] = "RGB"
    /\ arg[2].type = "map"
    /\ DOMAIN arg[2].v = {"red", "g", "b"}
    /\ res.err = "ValueError"
    /\ cur = NoObj

\* C17: webcolor(name) returns an object exactly when the lowercase of name
\* is a name of the table, and raises ColorValueError otherwise; the object
\* holds the lowercase name, equals the webcolor of that lowercase name, and
\* its to_hex() equals HEX of the table's value for the name.
C17_WebcolorLookup ==
    /\ op = "webcolor" =>
          LET lname == str_lower(arg)
          IN  IF InColors(lname)
              THEN /\ res.err = "none"
                   /\ cur["kind"] = "webcolor"
                   /\ cur["name"] = lname
                   /\ Color_eq(cur, webcolor_new(lname).val)
              ELSE res.err = "ColorValueError" /\ cur = NoObj
    /\ (op = "convert" /\ arg = "to_hex" /\ cur["kind"] = "webcolor") =>
          /\ res.err = "none"
          /\ Color_eq(res.val, HEX_new(ColorsGet(cur["name"])).val)

\* webcolor('RED'), which holds the name 'red', was converted with to_hex().
C17_Witness ==
    /\ op = "convert"
    /\ arg = "to_hex"
    /\ cur = webcolor_new(<<"R", "E", "D">>).val
    /\ cur["name"] = <<"r", "e", "d">>
    /\ res.err = "none"
    /\ res.val["value"] = <<"#", "f", "f", "0", "0", "0", "0">>

\* The entries of the table whose value is h in some letter case.
Matches(h) ==
    {i \in DOMAIN CSS_COLOR_TO_HEX :
        str_lower(CSS_COLOR_TO_HEX[i][2]) = str_lower(h)}

\* C18: webcolor.from_hex(h) returns the webcolor of the first entry of the
\* table whose value is h in some letter case ('aqua' for '#00ffff'), and
\* raises ColorValueError when there is none; the to_hex() of the object
\* returned equals HEX(h).
C18_FromHexFirstMatch ==
    op = "webcolor.from_hex" =>
        IF Matches(arg) = {} THEN res.err = "ColorValueError" /\ cur = NoObj
        ELSE /\ res.err = "none"
             /\ cur["kind"] = "webcolor"
             /\ \E i \in Matches(arg) :
                   /\ \A j \in Matches(arg) : i <= j
                   /\ cur["name"] = CSS_COLOR_TO_HEX[i][1]
             /\ str_lower(arg) = <<"#", "0", "0", "f", "f", "f", "f">> =>
                   cur["name"] = <<"a", "q", "u", "a">>
             /\ HEX_new(arg).err = "none"
             /\ Method(cur, "to_hex").err = "none"
             /\ Color_eq(Method(cur, "to_hex").val, HEX_new(arg).val)

\* webcolor.from_hex('#00Ffff') returned 'aqua', the first of two matches.
C18_Witness ==
    /\ op = "webcolor.from_hex"
    /\ arg = <<"#", "0", "0", "F", "f", "f", "f">>
    /\ Cardinality(Matches(arg)) = 2
    /\ res.err = "none"
    /\ cur["name"] = <<"a", "q", "u", "a">>

\* The targets T that the claim C19 names for a source of the class kind.
PivotClaimed(kind) ==
    CASE kind \in {"HEX", "HSV", "HSL", "CMYK", "ASSA", "webcolor"} ->
             {m \in PivotTargets : TargetKind(m) # kind}
      [] kind = "RGBA" -> {"to_hex", "to_hsv", "to_hsl", "to_cmyk"}
      [] OTHER -> {}

\* The outcomes a and b are the same exception, or equal objects.
SameOutcome(a, b) ==
    /\ a.err = b.err
    /\ a.err = "none" => Color_eq(a.val, b.val)

\* C19: for a source s other than an RGB and a target T of another kind
\* among HEX, HSV, HSL, CMYK, ASSA (without ASSA for an RGBA source), s.to_T()
\* returns an object equal to s.to_rgb().to_T().
C19_PivotThroughRGB ==
    /\ (op = "convert" /\ arg \in PivotClaimed(cur["kind"])) =>
          LET rgb == Method(cur, "to_rgb")
          IN  /\ rgb.err = "none"
              /\ res.err = "none"
              /\ SameOutcome(res, Method(rgb.val, arg))
    /\ (op = "convert" /\ cur["kind"] = "RGB"
          /\ arg \in PivotClaimed(src["kind"])) =>
          res.err = "none" /\ SameOutcome(res, Method(src, arg))

\* x = HSV(60, 100, 100).to_rgb() was converted with to_cmyk().
C19_Witness ==
    /\ op = "convert"
    /\ arg = "to_cmyk"
    /\ src = HSV_new(I(60), I(100), I(100)).val
    /\ cur = RGB_new(I(255), I(255), I(0)).val
    /\ res.err = "none"
    /\ res.val["yellow"] = I(100)
    /\ Color_eq(res.val, Method(src, "to_cmyk").val)

\* C20: the conversion of an object to its own class (to_rgb of an RGB,
\* to_rgba of an RGBA, to_hex of a HEX, to_hsv of an HSV, to_hsl of an HSL,
\* to_cmyk of a CMYK, to_assa of an ASSA, to_webcolor of a webcolor) and
\* copy() return the very object they are called on.
C20_SameInstance ==
    /\ (op = "convert" /\ TargetKind(arg) = cur["kind"]) =>
          res.err = "none" /\ same /\ res.val = cur
    /\ op = "copy" => res.err = "none" /\ same /\ res.val = cur

\* HSV(60, 100, 100).to_hsv() returned the object itself.
C20_Witness ==
    /\ op = "convert"
    /\ arg = "to_hsv"
    /\ cur = HSV_new(I(60), I(100), I(100)).val
    /\ same
    /\ res.val = cur

\* C21: the validator of a class's schema returns an instance of that class
\* as the very object it was given, with its fields as they were; it hands a
\* string and a mapping to the class's parser and returns what the parser
\* returns or raises; every other value, an integer and an instance of
\* another class among them, is rejected with ValueError and never converted.
C21_ValidatorInputs ==
    op = "validate" =>
        LET cls == arg[1]
            v == arg[2]
        IN  CASE v.type = "obj" /\ v.v["kind"] = cls ->
                    res = Ok(cur) /\ same /\ v.v = cur /\ cur = orig
              [] v.type = "obj" /\ v.v["kind"] # cls ->
                    res.err = "ValueError" /\ ~same /\ cur = orig
              [] v.type \in {"str", "map"} -> res = Parser(cls, v) /\ ~same
              [] OTHER -> res.err = "ValueError"

\* An RGBA instance was given to the validator of RGB, which raised.
C21_Witness ==
    /\ op = "validate"
    /\ arg[1] = "RGB"
    /\ arg[2].type = "obj"
    /\ arg[2].v["kind"] = "RGBA"
    /\ res.err = "ValueError"

\* C22: a mapping that a class's parser (called directly or by the schema's
\* validator) accepts has exactly the keys the class's object schema
\* requires: every required key and no other key.
C22_NoAdditionalProperties ==
    (op \in {"parse", "validate"} /\ arg[2].type = "map" /\ res.err = "none") =>
        DOMAIN arg[2].v = object_required(arg[1])

\* C23: the canonical string of every valid object matches the pattern of
\* its class's string schema, and the class's parser accepts every example
\* of the string schema.
C23_PatternDescribesRepr ==
    /\ (op = "repr" /\ Valid(cur)) => string_pattern(cur["kind"], res.val)
    /\ op = "parse_example" => res.err = "none"

\* C24: however the steps of the threads' calls on a shared instance are
\* interleaved, the instance keeps the fields it was handed over with, and
\* every finished call has returned or raised what the same call returns or
\* raises when it runs alone on that instance.
C24_ThreadSafe ==
    /\ shared = given
    /\ \A t \in DOMAIN tpc :
           tpc[t] = "done" => tret[t] = Call(given, given, tcall[t])

\* Two threads have finished their calls on the same instance: a conversion
\* that returned and an attribute assignment that raised.
C24_Witness ==
    /\ given # NoObj
    /\ \E t, u \in DOMAIN tpc :
           /\ t # u
           /\ tpc[t] = "done"
           /\ tcall[t] = "to_hsv"
           /\ tret[t].err = "none"
           /\ tpc[u] = "done"
           /\ tcall[u] = "setattr"
           /\ tret[u].err = "AttributeError"

\* The last call of the wrapped function so far.
LastCall == log[Len(log)]

\* Every call of the wrapped function but the last one raised.
CalledUntilSuccess ==
    \A i \in DOMAIN log : (log[i].ev = "call" /\ i < Len(log)) => log[i].err # "none"

\* The log is call, sleep, call, ..., call: a sleep of delay seconds between
\* any two calls, none before the first call and none after the last.
SleepsBetweenCalls ==
    /\ Len(log) = 2 * Calls - 1
    /\ \A i \in DOMAIN log :
           IF i % 2 = 1 THEN log[i].ev = "call"
           ELSE log[i] = SleepEvent(delay) /\ log[i - 1].err # "none"

\* What the claim says of a finished call of the wrapper, for attempts >= 1.
RetriedToTheEnd ==
    /\ Calls \in 1..attempts
    /\ CalledUntilSuccess
    /\ SleepsBetweenCalls
    /\ Sleeps = Calls - 1
    /\ IF LastCall.err = "none"
       THEN outcome = [err |-> "none", val |-> Calls]
       ELSE Calls = attempts /\ outcome = [err |-> LastCall.err, val |-> attempts]

Percent(x) == QLe(I(0), x) /\ QLe(x, I(100))

\* The fields that to_rgb of an HSV, HSL or CMYK object reads.
FloatFields(self) ==
    CASE self["kind"] = "HSV" ->
             <<self["hue"], self["saturation"], self["value"]>>
      [] self["kind"] = "HSL" ->
             <<self["hue"], self["saturation"], self["lightness"]>>
      [] self["kind"] = "CMYK" ->
             <<self["cyan"], self["magenta"], self["yellow"], self["key"]>>

\* The exact values of the three floats that to_rgb passes to round().
ExactChannels(self) ==
    CASE self["kind"] = "HSV" -> HSV_floats(FloatFields(self))
      [] self["kind"] = "HSL" -> HSL_floats(FloatFields(self))
      [] self["kind"] = "CMYK" -> CMYK_floats(FloatFields(self))

\* The three floats as doubles, every operation of the formula rounded.
ComputedChannels(self) ==
    LET fields == AsDoubles(FloatFields(self))
    IN  CASE self["kind"] = "HSV" -> HSV_floats(fields)
          [] self["kind"] = "HSL" -> HSL_floats(fields)
          [] self["kind"] = "CMYK" -> CMYK_floats(fields)

\* to_rgb was called on a valid HSV, HSL or CMYK object.
RoundedChannels ==
    /\ op = "convert" /\ arg = "to_rgb"
    /\ cur["kind"] \in {"HSV", "HSL", "CMYK"}
    /\ Valid(cur)

ChannelsOf(rgb) == <<rgb["red"], rgb["green"], rgb["blue"]>>

\* x is half way between two ints.
HalfWay(x) == x[2] = 2

C27_ToCmyk ==
    (op = "convert" /\ arg = "to_cmyk" /\ cur["kind"] = "RGB" /\ Valid(cur)) =>
        LET r == QDiv(cur["red"], I(255))
            g == QDiv(cur["green"], I(255))
            b == QDiv(cur["blue"], I(255))
            k == QSub(I(1), QMax3(r, g, b))
            out == res.val
            Ink(x) == QMul(I(100), QDiv(QSub(QSub(I(1), x), k), QSub(I(1), k)))
        IN  /\ res.err = "none"
            /\ out["kind"] = "CMYK"
            /\ Valid(out)
            /\ out["key"] = QMul(I(100), k)
            /\ IF k = I(1)
               THEN /\ out["cyan"] = I(0)
                    /\ out["magenta"] = I(0)
                    /\ out["yellow"] = I(0)
                    /\ out["key"] = I(100)
               ELSE /\ out["cyan"] = Ink(r)
                    /\ out["magenta"] = Ink(g)
                    /\ out["yellow"] = Ink(b)
            /\ \A f \in {"cyan", "magenta", "yellow", "key"} : Percent(out[f])

\* Black was converted: cyan, magenta and yellow 0, key 100.
C27_Witness ==
    /\ op = "convert"
    /\ arg = "to_cmyk"
    /\ cur = RGB_new(I(0), I(0), I(0)).val
    /\ res.err = "none"
    /\ res.val["key"] = I(100)
    /\ res.val["cyan"] = I(0)

\* C28: to_hsv and to_hsl of a valid RGB object return without raising an
\* object whose hue is at least 0 and less than 360 and whose other two
\* fields lie in [0, 100]; when the largest and the smallest channel are
\* equal (black among them) the hue is 0 and the saturation is 0.
C28_HueRange ==
    (op = "convert" /\ arg \in {"to_hsv", "to_hsl"} /\ cur["kind"] = "RGB"
        /\ Valid(cur)) =>
        LET out == res.val
            third == IF arg = "to_hsv" THEN "value" ELSE "lightness"
        IN  /\ res.err = "none"
            /\ out["kind"] = TargetKind(arg)
            /\ QLe(I(0), out["hue"])
            /\ QLt(out["hue"], I(360))
            /\ Percent(out["saturation"])
            /\ Percent(out[third])
            /\ QMax3(cur["red"], cur["green"], cur["blue"])
                  = QMin3(cur["red"], cur["green"], cur["blue"])
                  => out["hue"] = I(0) /\ out["saturation"] = I(0)

\* Pure red was converted to HSV: the hue 60 * 0 + 360 wrapped to 0.
C28_Witness ==
    /\ op = "convert"
    /\ arg = "to_hsv"
    /\ cur = RGB_new(I(255), I(0), I(0)).val
    /\ res.err = "none"
    /\ res.val["hue"] = I(0)
    /\ res.val["saturation"] = I(100)

\* C29: a conversion of a valid object to another class returns a new
\* object: not the object it was called on, and not an object that the
\* object holds, which every earlier call of the conversion returned as well.
C29_NewInstance ==
    (op = "convert" /\ Valid(cur) /\ TargetKind(arg) # cur["kind"]
        /\ res.err = "none") => ~same /\ ~held

\* C30: to_assa of a valid object of a class other than RGBA and ASSA
\* returns the 6-digit form, whose alpha is None. to_assa of a valid RGBA
\* object returns the 8-digit form, whose alpha is a byte, 0 for alpha 1;
\* it is never equal to to_assa of the object's to_rgb(). RGBA.from_assa of
\* a valid 6-digit ASSA object returns an RGBA object of alpha 1, and for
\* the ASSA object of a valid RGB object x it returns an object equal to
\* x.to_rgba(1.0).
C30_AssaForm ==
    /\ (op = "convert" /\ arg = "to_assa" /\ Valid(cur)
          /\ cur["kind"] \notin {"RGBA", "ASSA"}) =>
          /\ res.err = "none"
          /\ res.val["kind"] = "ASSA"
          /\ Len(ASSA_clean_value(res.val)) = 6
          /\ ASSA_alpha(res.val) = None
    /\ (op = "convert" /\ arg = "to_assa" /\ Valid(cur) /\ cur["kind"] = "RGBA") =>
          /\ res.err = "none"
          /\ res.val["kind"] = "ASSA"
          /\ Len(ASSA_clean_value(res.val)) = 8
          /\ ASSA_alpha(res.val) # None
          /\ ASSA_alpha(res.val)[1] \in 0..255
          /\ cur["alpha"] = I(1) => SubSeq(ASSA_clean_value(res.val), 1, 2) = <<"0", "0">>
          /\ ~Color_eq(res.val, RGB_to_assa(RGBA_to_rgb(cur).val).val)
    /\ (op = "RGBA.from_assa" /\ Valid(cur) /\ Len(ASSA_clean_value(cur)) = 6) =>
          /\ res.err = "none"
          /\ res.val["kind"] = "RGBA"
          /\ res.val["alpha"] = I(1)
          /\ (src["kind"] = "RGB" /\ Valid(src)) =>
                Color_eq(res.val, RGB_to_rgba(src, I(1)).val)

\* RGB(0, 51, 255) went to its 6-digit ASSA object and from there to an
\* RGBA object of alpha 1.
C30_Witness ==
    /\ op = "RGBA.from_assa"
    /\ src = RGB_new(I(0), I(51), I(255)).val
    /\ ASSA_clean_value(cur) = <<"f", "f", "3", "3", "0", "0">>
    /\ res.val = RGBA_new(I(0), I(51), I(255), I(1)).val

=============================================================================
